---- MODULE Spec2Model ----
(***************************************************************************)
(* Model of the bank-statement extraction pipeline of tga-tools:           *)
(*   - the Consolidator            (backend/extractors/unificador.py)      *)
(*   - the OCR relevance filter    (backend/extractors/ocr_extractor.py)   *)
(*   - the raw document reader     (backend/pdf_reader.py)                 *)
(*   - the extraction orchestrator (backend/extractors/                    *)
(*                                  universal_extractor.py)                *)
(*   - the amount columns of the bank parsers (backend/parsers/macro.py,   *)
(*     backend/parsers/ciudad.py, backend/extractos/parsers/comafi.py)     *)
(* Each subsystem has its own specification over its own variables; the    *)
(* variables of the other subsystems stay at their idle values.            *)
(***************************************************************************)
EXTENDS Integers, Sequences, FiniteSets, TLC

VARIABLES
    inputs,     \* consolidate: the list of {df, meta} items handed to consolidate
    df_all,     \* consolidate: the table it returns
    cpc,        \* consolidate: "ready" before the call, "done" after it
    pages,          \* OCR: the document, one [headers, fechas, importes] per page
    opc,            \* OCR: where extract_text_pages is
    oi,             \* OCR: the loop variable i of the running loop
    relevantes_idx, \* OCR: the pages the quick pass marked relevant
    resultados,     \* OCR: the (page, text) pairs collected by the full pass
    full_raster,    \* OCR: pages rasterized at dpi_full so far
    full_ocr,       \* OCR: pages whose dpi_full image was given to the recognizer
    imgs_held,      \* OCR: number of dpi_full images held by the running batch
    ofail,          \* OCR: what raised so far: the quick conversion, pages of the
                    \*      quick loop, pages of the full loop, pages of lost batches
    disk,       \* reader: the content of each file (absolute path), "none" when missing
    cache,      \* reader: PDFReader._cache, a function from cache keys to results
    rpc,        \* reader: "idle", "trying" (inside _extract_pdf) or "raised"
    rcall,      \* reader: the running call: path, mode, key, strategies left
    rtrace,     \* reader: the strategies invoked by the last call, with outcomes
    rret,       \* reader: the value returned by the last call that returned
    rruns,      \* reader: per (absolute path, mode), the calls that ran strategies
    rfirst,     \* reader: per (absolute path, mode), the first value returned
    ncalls,     \* reader: number of calls made
    uploads,    \* job: the uploaded files {filename, content}
    jpc,        \* job: position of the worker thread in procesar_extractos
    epos,       \* job: index of the next file of the loop
    job_resultados, \* job: the list resultados of procesar_extractos
    errores,    \* job: the list errores of procesar_extractos
    job,        \* job: the entry JOBS[job_id]
    elog,       \* job: per processed file, what extract_from_pdf did
    other_jobs, \* job: the entries of JOBS under other job ids
    parser_cls, \* parser: the bank parser class whose parse() is running
    data,       \* parser: the rows parse() has appended so far
    nread,      \* parser: number of lines parse() has read
    ppc,        \* parser: "lines" inside the loop over the lines, "done" after return
    table,      \* parser: the rows of the table parse() returns
    saldo_anterior, \* parser: the local saldo_anterior of CiudadParser._parse_lines
    norm_fn,    \* helper call: the function called
    norm_arg,   \* helper call: its argument
    norm_out,   \* helper call: what it returned
    npc         \* helper call: "ready" before the call, "done" after it

varsC == <<inputs, df_all, cpc>>
varsO == <<pages, opc, oi, relevantes_idx, resultados, full_raster, full_ocr, imgs_held, ofail>>
varsR == <<disk, cache, rpc, rcall, rtrace, rret, rruns, rfirst, ncalls>>
varsE == <<uploads, jpc, epos, job_resultados, errores, job, elog, other_jobs>>
varsP == <<parser_cls, data, nread, ppc, table, saldo_anterior>>
varsN == <<norm_fn, norm_arg, norm_out, npc>>
vars  == <<varsC, varsO, varsR, varsE, varsP, varsN>>

\* What each subsystem leaves alone.  A job's extractor owns a reader, so a job
\* writes the reader's cache.
restC == <<varsO, varsR, varsE, varsP, varsN>>
restO == <<varsC, varsR, varsE, varsP, varsN>>
restR == <<varsC, varsO, varsE, varsP, varsN>>
restE == <<varsC, varsO, disk, rpc, rcall, rtrace, rret, rruns, rfirst, ncalls, varsP, varsN, other_jobs>>
restP == <<varsC, varsO, varsR, varsE, varsN>>
restN == <<varsC, varsO, varsR, varsE, varsP>>

\* The idle values of each subsystem's variables.
IdleC == inputs = <<>> /\ df_all = <<>> /\ cpc = "idle"
IdleO ==
    /\ pages = <<>> /\ opc = "idle" /\ oi = 0 /\ relevantes_idx = <<>>
    /\ resultados = <<>> /\ full_raster = {} /\ full_ocr = {} /\ imgs_held = 0
    /\ ofail = <<>>
IdleR ==
    /\ disk = <<>> /\ cache = <<>> /\ rpc = "off" /\ rcall = <<>> /\ rtrace = <<>>
    /\ rret = <<>> /\ rruns = <<>> /\ rfirst = <<>> /\ ncalls = 0
IdleE ==
    /\ uploads = <<>> /\ jpc = "idle" /\ epos = 0 /\ job_resultados = <<>>
    /\ errores = <<>> /\ job = <<>> /\ elog = <<>> /\ other_jobs = <<>>
IdleP ==
    /\ parser_cls = "" /\ data = <<>> /\ nread = 0 /\ ppc = "idle" /\ table = <<>>
    /\ saldo_anterior = <<>>
IdleN == norm_fn = "" /\ norm_arg = <<>> /\ norm_out = <<>> /\ npc = "idle"
OthersIdleC == IdleO /\ IdleR /\ IdleE /\ IdleP /\ IdleN
OthersIdleO == IdleC /\ IdleR /\ IdleE /\ IdleP /\ IdleN
OthersIdleR == IdleC /\ IdleO /\ IdleE /\ IdleP /\ IdleN
OthersIdleE == IdleC /\ IdleO /\ IdleR /\ IdleP /\ IdleN
OthersIdleP == IdleC /\ IdleO /\ IdleR /\ IdleE /\ IdleN
OthersIdleN == IdleC /\ IdleO /\ IdleR /\ IdleE /\ IdleP

(***************************************************************************)
(* Generic helpers                                                         *)
(***************************************************************************)

\* A nullable value is a sequence of length 0 (NaN / None / NaT) or 1.
NA == <<>>
Some(v) == <<v>>
IsNA(c) == c = <<>>
Val(c) == c[1]

RECURSIVE SeqsUpTo(_, _)
\* All sequences over S of length 1..n.
SeqsUpTo(S, n) ==
    IF n = 0 THEN {}
    ELSE LET shorter == SeqsUpTo(S, n - 1)
         IN  {<<x>> : x \in S} \cup shorter
                \cup {Append(s, x) : s \in shorter, x \in S}

RECURSIVE FlattenSeqs(_)
FlattenSeqs(ss) ==
    IF ss = <<>> THEN <<>> ELSE Head(ss) \o FlattenSeqs(Tail(ss))

(***************************************************************************)
(* Consolidator: unificador.py                                             *)
(***************************************************************************)

\* Bounds of the consolidation inputs.
MaxRows == 2

\* str(bank_raw).upper() followed by whitespace collapsing, on BankStrings.
BankUpper(s) ==
    CASE s = "Banco Macro S.A." -> "BANCO MACRO S.A."
      [] s = "macro"            -> "MACRO"
      [] s = "Nacion"           -> "NACION"
      [] OTHER                  -> s

\* The aliases of normalize_bank that occur as substrings of an upper-cased
\* bank string.
AliasesIn(s) ==
    CASE s = "BANCO MACRO S.A." -> {"MACRO"}
      [] s = "MACRO"            -> {"MACRO"}
      [] OTHER                  -> {}

normalize_bank(bank_raw) ==
    IF bank_raw = "" THEN "DESCONOCIDO"
    ELSE LET s == BankUpper(bank_raw)
             a == AliasesIn(s)
         IN  IF "COMAFI" \in a THEN "COMAFI"
             ELSE IF "ICBC" \in a THEN "ICBC"
             ELSE IF "MACRO" \in a THEN "MACRO"
             ELSE IF "GALICIA" \in a THEN "GALICIA"
             ELSE IF "SANTANDER" \in a THEN "SANTANDER"
             ELSE IF "BBVA" \in a THEN "BBVA"
             ELSE IF "HSBC" \in a THEN "HSBC"
             ELSE s

\* Position of a normalized bank name in the lexicographic order of strings
\* (the order sort_values uses on the "banco" column).
BankRank(b) ==
    CASE b = "BBVA"        -> 1
      [] b = "COMAFI"      -> 2
      [] b = "DESCONOCIDO" -> 3
      [] b = "GALICIA"     -> 4
      [] b = "HSBC"        -> 5
      [] b = "ICBC"        -> 6
      [] b = "MACRO"       -> 7
      [] b = "NACION"      -> 8
      [] b = "SANTANDER"   -> 9
      [] OTHER             -> 0

\* ---- cells of the "año"/"mes" columns before coercion -----------------------
\* t = "num": a number v;  "nan": float NaN (a None in a numeric column);
\* "none": None (object column, or no value);  "blank": the empty string.
NumCell(v) == [t |-> "num", v |-> v]
NanCell    == [t |-> "nan", v |-> 0]
NoneCell   == [t |-> "none", v |-> 0]
BlankCell  == [t |-> "blank", v |-> 0]

\* Python truthiness of a value read with .iloc[0] or meta.get(...).
Truthy(c) == (c.t = "nan") \/ (c.t = "num" /\ c.v # 0)
\* pandas isna() of a cell.
IsNaCell(c) == c.t \in {"nan", "none"}
\* pd.to_numeric(..., errors="coerce") of a cell.
ToNumeric(c) == IF c.t = "num" THEN Some(c.v) ELSE NA

\* ---- dates -------------------------------------------------------------------
\* A "fecha" cell is the string dd/mm/yyyy, modelled as <<dd, mm, yyyy>>, or
\* the empty string, modelled as <<>>.
DaysIn(m, y) ==
    IF m \in {4, 6, 9, 11} THEN 30
    ELSE IF m = 2 THEN (IF y % 4 = 0 /\ (y % 100 # 0 \/ y % 400 = 0) THEN 29 ELSE 28)
    ELSE 31

\* pd.to_datetime(col, errors="coerce", dayfirst=True, format="%d/%m/%Y"):
\* a timestamp [y, m, d] or NaT.
ParseFecha(f) ==
    IF Len(f) # 3 THEN NA
    ELSE IF f[2] \in 1..12 /\ f[1] >= 1 /\ f[1] <= DaysIn(f[2], f[3])
         THEN Some([y |-> f[3], m |-> f[2], d |-> f[1]])
         ELSE NA

\* Total order of timestamps.
DateOrd(ts) == (ts.y * 12 + (ts.m - 1)) * 31 + (ts.d - 1)

\* ---- infer_period --------------------------------------------------------------
\* A raw line is modelled by what the two patterns of infer_period find in it:
\*   [k |-> "mes",   mes |-> M, anio |-> Y]   it holds "MES - YYYY"
\*   [k |-> "fecha", mo |-> M,  y |-> Y]      it holds a date ../M/Y (Y of 2 or 4 digits)
\*   [k |-> "otro"]                           neither pattern matches
RECURSIVE FirstMesLine(_)
FirstMesLine(lines) ==
    IF lines = <<>> THEN NA
    ELSE IF Head(lines).k = "mes"
         THEN Some(<<Head(lines).anio, Head(lines).mes>>)
         ELSE FirstMesLine(Tail(lines))

RECURSIVE FirstFechaLine(_)
FirstFechaLine(lines) ==
    IF lines = <<>> THEN NA
    ELSE LET l == Head(lines)
         IN  IF l.k = "fecha" /\ l.mo >= 1 /\ l.mo <= 12
             THEN Some(<<IF l.y < 100 THEN 2000 + l.y ELSE l.y, l.mo>>)
             ELSE FirstFechaLine(Tail(lines))

\* The valid timestamps of a table's "fecha" column.
ValidDates(rows) ==
    {Val(ParseFecha(rows[i].fecha)) : i \in {j \in 1..Len(rows) : ~IsNA(ParseFecha(rows[j].fecha))}}

\* infer_period(df, raw_lines): the pair <<year cell, month cell>>.
infer_period(rows, raw_lines) ==
    LET ds == ValidDates(rows)
    IN  IF ds # {}
        THEN LET first == CHOOSE x \in ds : \A z \in ds : DateOrd(x) <= DateOrd(z)
             IN  <<NumCell(first.y), NumCell(first.m)>>
        ELSE IF ~IsNA(FirstMesLine(raw_lines))
             THEN <<NumCell(Val(FirstMesLine(raw_lines))[1]), NumCell(Val(FirstMesLine(raw_lines))[2])>>
        ELSE IF ~IsNA(FirstFechaLine(raw_lines))
             THEN <<NumCell(Val(FirstFechaLine(raw_lines))[1]), NumCell(Val(FirstFechaLine(raw_lines))[2])>>
        ELSE <<NoneCell, NoneCell>>

\* ---- the per-item part of consolidate (lines 137-181) ----------------------------
\* An item is [df |-> table, meta |-> meta]; a table is
\*   [cols |-> does it have the "año"/"mes" columns, seqcol |-> does it have "__seq",
\*    banco |-> the first value of its "banco" column ("" when absent or empty),
\*    raw_lines |-> df.attrs["raw_lines"],
\*    rows |-> <<[fecha, anio, mes, seq, detalle]>>]
\* and meta is [bank, year, month] (cells; NoneCell when the key is absent).

\* Lines 141-144.
ItemBank(item) ==
    normalize_bank(IF item.df.banco # "" THEN item.df.banco ELSE item.meta.bank)

\* Lines 147-156: the statement-level <<year, month>>.
ItemPeriod(item) ==
    LET df == item.df
        y0 == IF df.cols THEN df.rows[1].anio ELSE NoneCell
        m0 == IF df.cols THEN df.rows[1].mes ELSE NoneCell
        p1 == IF ~(Truthy(y0) /\ Truthy(m0))
              THEN <<item.meta.year, item.meta.month>> ELSE <<y0, m0>>
    IN  IF ~(Truthy(p1[1]) /\ Truthy(p1[2]))
        THEN infer_period(df.rows, df.raw_lines) ELSE p1

\* Lines 170-174: the "año" (which = 1) or "mes" (which = 2) column after the
\* control columns are completed, before coercion.
CompletedCol(item, which) ==
    LET df == item.df
        col == [i \in 1..Len(df.rows) |-> IF which = 1 THEN df.rows[i].anio ELSE df.rows[i].mes]
    IN  IF ~df.cols \/ (\A i \in 1..Len(df.rows) : IsNaCell(col[i]))
        THEN [i \in 1..Len(df.rows) |-> ItemPeriod(item)[which]]
        ELSE col

\* _coerce_period_cols (lines 84-96): both columns as nullable integers.
\* The result is the sequence of <<año, mes>> per row.
_coerce_period_cols(item) ==
    LET df == item.df
        n == Len(df.rows)
        a == [i \in 1..n |-> ToNumeric(CompletedCol(item, 1)[i])]
        m == [i \in 1..n |-> ToNumeric(CompletedCol(item, 2)[i])]
        anyNA == \E i \in 1..n : IsNA(a[i]) \/ IsNA(m[i])
        f == [i \in 1..n |-> ParseFecha(df.rows[i].fecha)]
    IN  [i \in 1..n |->
            <<IF anyNA /\ IsNA(a[i]) /\ ~IsNA(f[i]) THEN Some(Val(f[i]).y) ELSE a[i],
              IF anyNA /\ IsNA(m[i]) /\ ~IsNA(f[i]) THEN Some(Val(f[i]).m) ELSE m[i]>>]

\* The values _build_period_and_order_date puts where año / mes are missing.
DefaultYear == 2025
DefaultMonth == 1

\* .fillna(v) of a nullable value.
FillNa(c, v) == IF IsNA(c) THEN Some(v) ELSE c

\* _build_period_and_order_date (lines 98-121) applied after _coerce_period_cols:
\* the rows of the prepared table, with the columns consolidate sorts on.
\* src and idx (the item's position in the input list and the row's position in
\* its table) are bookkeeping of the model: they identify the input row.
_build_period_and_order_date(item, src) ==
    LET df == item.df
        per == _coerce_period_cols(item)
    IN  [i \in 1..Len(df.rows) |->
            LET anio == FillNa(per[i][1], DefaultYear)
                mes == FillNa(per[i][2], DefaultMonth)
                periodo_sort == [y |-> Val(anio), m |-> Val(mes), d |-> 1]
                fecha_dt == ParseFecha(df.rows[i].fecha)
            IN  [banco |-> ItemBank(item),
                 anio |-> anio,
                 mes |-> mes,
                 fecha |-> df.rows[i].fecha,
                 detalle |-> df.rows[i].detalle,
                 seq |-> IF df.seqcol THEN df.rows[i].seq ELSE NA,
                 fecha_orden |-> Some(IF IsNA(fecha_dt) THEN periodo_sort ELSE Val(fecha_dt)),
                 src |-> src,
                 idx |-> i]]

\* ---- sorting ----------------------------------------------------------------------
\* A sort key is a tuple of nullable integers; NaN sorts last (na_position="last").
CellLess(a, b) == ~IsNA(a) /\ (IsNA(b) \/ Val(a) < Val(b))

RECURSIVE KeyLess(_, _)
KeyLess(k1, k2) ==
    IF k1 = <<>> THEN FALSE
    ELSE IF CellLess(Head(k1), Head(k2)) THEN TRUE
    ELSE IF CellLess(Head(k2), Head(k1)) THEN FALSE
    ELSE KeyLess(Tail(k1), Tail(k2))

KeyEq(k1, k2) == ~KeyLess(k1, k2) /\ ~KeyLess(k2, k1)

\* DataFrame.sort_values(keys, kind="stable", na_position="last") where keys[i]
\* is the key tuple of rows[i].
sort_values(rows, keys) ==
    LET n == Len(rows)
        pos(i) == 1 + Cardinality({j \in 1..n :
                        KeyLess(keys[j], keys[i]) \/ (j < i /\ KeyEq(keys[j], keys[i]))})
    IN  [p \in 1..n |-> rows[CHOOSE i \in 1..n : pos(i) = p]]

SeqKey(r) == <<Some(BankRank(r.banco)), r.anio, r.mes, r.seq>>
FechaKey(r) == <<Some(BankRank(r.banco)), r.anio, r.mes,
                 IF IsNA(r.fecha_orden) THEN NA ELSE Some(DateOrd(Val(r.fecha_orden)))>>

\* A concatenation that keeps the tables of the first statement only.
FirstOnly(ins) == _build_period_and_order_date(ins[1], 1)

\* pd.concat(items, ignore_index=True) (line 191).
Concat(ins) ==
    FlattenSeqs([k \in 1..Len(ins) |-> _build_period_and_order_date(ins[k], k)])

\* Lines 193-198: the pre-sort on "__seq", taken when the concatenated table has
\* that column, i.e. when at least one input table has it.
SeqPresort(ins, rows) ==
    IF \E k \in 1..Len(ins) : ins[k].df.seqcol
    THEN sort_values(rows, [i \in 1..Len(rows) |-> SeqKey(rows[i])])
    ELSE rows

\* consolidate(inputs) (lines 126-225): the returned table.
consolidate(ins) ==
    IF ins = <<>> THEN <<>>
    ELSE LET pre == SeqPresort(ins, Concat(ins))
         IN  sort_values(pre, [i \in 1..Len(pre) |-> FechaKey(pre[i])])

\* ---- the tables handed to consolidate ---------------------------------------------
\* Three shapes of the "año"/"mes" columns reach consolidate:
\*   "absent": the table has no such columns;
\*   "blank":  extract_from_pdf added them as "" (universal_extractor.py 284-286);
\*   "parser": the parser filled them from each row's date and left None on the
\*             undated rows (comafi.py 283-284, macro.py 128 and 176-177); a column
\*             with at least one number is numeric and holds NaN for its None.
PeriodCell(layout, fechas, i, which) ==
    LET f == ParseFecha(fechas[i])
        anyDated == \E j \in 1..Len(fechas) : ~IsNA(ParseFecha(fechas[j]))
    IN  IF layout = "blank" THEN BlankCell
        ELSE IF layout = "parser"
             THEN IF ~IsNA(f) THEN NumCell(IF which = 1 THEN Val(f).y ELSE Val(f).m)
                  ELSE IF anyDated THEN NanCell ELSE NoneCell
        ELSE NoneCell

\* The table a parser returns for the dates fechas; "__seq" numbers the rows from 0
\* in their order (macro.py 49, 125-130).
MkTable(layout, seqcol, banco, raw_lines, fechas) ==
    [cols |-> layout # "absent",
     seqcol |-> seqcol,
     banco |-> banco,
     raw_lines |-> raw_lines,
     rows |-> [i \in 1..Len(fechas) |->
                [fecha |-> fechas[i],
                 anio |-> PeriodCell(layout, fechas, i, 1),
                 mes |-> PeriodCell(layout, fechas, i, 2),
                 seq |-> Some(i - 1),
                 detalle |-> i]]]

NoMeta(bank) == [bank |-> bank, year |-> NoneCell, month |-> NoneCell]
MetaOf(bank, y, m) == [bank |-> bank, year |-> NumCell(y), month |-> NumCell(m)]

\* Input families of the general specification.
RowDates == {<<>>, <<1, 6, 2025>>, <<15, 6, 2025>>}
BankInputs == {[banco |-> "", bank |-> "Banco Macro S.A."],
               [banco |-> "Nacion", bank |-> "macro"]}
PeriodInputs ==
    {[layout |-> "absent", year |-> NoneCell, month |-> NoneCell, raw_lines |-> <<>>],
     [layout |-> "absent", year |-> NumCell(2025), month |-> NumCell(7), raw_lines |-> <<>>],
     [layout |-> "absent", year |-> NoneCell, month |-> NoneCell,
      raw_lines |-> <<[k |-> "otro"], [k |-> "mes", mes |-> 7, anio |-> 2025]>>],
     [layout |-> "blank", year |-> NoneCell, month |-> NoneCell, raw_lines |-> <<>>],
     [layout |-> "parser", year |-> NoneCell, month |-> NoneCell, raw_lines |-> <<>>],
     [layout |-> "parser", year |-> NumCell(2025), month |-> NumCell(7), raw_lines |-> <<>>]}

Items(seqcol) ==
    {[df |-> MkTable(p.layout, seqcol, b.banco, p.raw_lines, fs),
      meta |-> [bank |-> b.bank, year |-> p.year, month |-> p.month]] :
        p \in PeriodInputs, b \in BankInputs, fs \in SeqsUpTo(RowDates, MaxRows)}

\* ---- the state machine ---------------------------------------------------------------
\* Lists of one or two statements, all from parsers of the same kind (with or
\* without the "__seq" column).
InitC ==
    /\ OthersIdleC
    /\ \E sq \in BOOLEAN : \E a \in Items(sq) :
          \/ inputs = <<a>>
          \/ \E b \in Items(sq) : inputs = <<a, b>>
    /\ df_all = <<>>
    /\ cpc = "ready"

\* What a call leaves in place of the tables written to "banco" at line 170
\* without the copy of line 137.
WrittenInPlace(ins) == [k \in DOMAIN ins |-> [ins[k] EXCEPT !.df.banco = ItemBank(ins[k])]]

\* Line 137: each item's table is copied before anything is written to it, so
\* the caller's list and tables are after the call what they were before.
InputsAfter(ins) == ins

\* One call consolidate(inputs).
Consolidate ==
    /\ cpc = "ready"
    /\ df_all' = consolidate(inputs)
    /\ inputs' = InputsAfter(inputs)
    /\ cpc' = "done"
    /\ UNCHANGED restC

\* A second call on the list the first call left behind.
ConsolidateAgain ==
    /\ cpc = "done"
    /\ df_all' = consolidate(inputs)
    /\ inputs' = InputsAfter(inputs)
    /\ cpc' = "again"
    /\ UNCHANGED restC

SpecConsolidate == InitC /\ [][Consolidate]_vars

\* Two calls in a row, on lists of one statement or of two statements of one
\* source (same bank, same shape of the period columns and metadata).
SameSource(a, b) ==
    /\ a.meta = b.meta
    /\ a.df.banco = b.df.banco
    /\ a.df.cols = b.df.cols
    /\ a.df.raw_lines = b.df.raw_lines
    /\ (a.df.cols => (a.df.rows[1].anio.t = "blank") = (b.df.rows[1].anio.t = "blank"))

InitRepeat ==
    /\ OthersIdleC
    /\ \E sq \in BOOLEAN : \E a \in Items(sq) :
          \/ inputs = <<a>>
          \/ \E b \in Items(sq) : SameSource(a, b) /\ inputs = <<a, b>>
    /\ df_all = <<>>
    /\ cpc = "ready"

NextRepeat == Consolidate \/ ConsolidateAgain

SpecRepeat == InitRepeat /\ [][NextRepeat]_vars

\* The rows handed in, as (statement, row) pairs, and the number of rows of
\* the output that come from a pair.
InputRows == {<<k, i>> : k \in DOMAIN inputs, i \in 1..MaxRows + 1} \cap
             UNION {{<<k, i>> : i \in DOMAIN inputs[k].df.rows} : k \in DOMAIN inputs}
Copies(k, i) == Cardinality({p \in DOMAIN df_all : df_all[p].src = k /\ df_all[p].idx = i})

\* C29: consolidate neither drops nor duplicates rows: the output has as many
\* rows as the inputs together, each input row is in it exactly once, with
\* its own description and date, and every output row is an input row.
C29_RowsPreserved ==
    cpc # "ready" =>
        /\ Len(df_all) = Cardinality(InputRows)
        /\ \A r \in InputRows : Copies(r[1], r[2]) = 1
        /\ \A p \in DOMAIN df_all :
              /\ <<df_all[p].src, df_all[p].idx>> \in InputRows
              /\ df_all[p].detalle = inputs[df_all[p].src].df.rows[df_all[p].idx].detalle
              /\ df_all[p].fecha = inputs[df_all[p].src].df.rows[df_all[p].idx].fecha

\* Two statements with dated and undated rows have been consolidated, and a
\* row of the second comes first.
C29_Witness ==
    /\ cpc = "done" /\ Len(inputs) = 2 /\ Len(df_all) = 2 * MaxRows
    /\ df_all[1].src = 2
    /\ \E p \in DOMAIN df_all : df_all[p].fecha = <<>>
    /\ \E p \in DOMAIN df_all : df_all[p].fecha # <<>>

\* ---- the June / July scenario ------------------------------------------------------
\* Two statements of one bank: opening balance, three dated transactions, closing
\* balance; the balance rows carry no date.
TxDays == {1, 15}
Statement(month, days) ==
    <<<<>>, <<days[1], month, 2025>>, <<days[2], month, 2025>>, <<days[3], month, 2025>>, <<>>>>

JuneJulyInputs ==
    {<<[df |-> MkTable(layout, sq, b.banco, <<>>, Statement(6, d1)),
        meta |-> IF withMeta THEN MetaOf(b.bank, 2025, 6) ELSE NoMeta(b.bank)],
       [df |-> MkTable(layout, sq, b.banco, <<>>, Statement(7, d2)),
        meta |-> IF withMeta THEN MetaOf(b.bank, 2025, 7) ELSE NoMeta(b.bank)]>> :
        layout \in {"absent", "blank", "parser"}, sq \in BOOLEAN, b \in BankInputs,
        withMeta \in BOOLEAN, d1 \in [1..3 -> TxDays], d2 \in [1..3 -> TxDays]}

InitJJ == OthersIdleC /\ inputs \in JuneJulyInputs /\ df_all = <<>> /\ cpc = "ready"

SpecJuneJuly == InitJJ /\ [][Consolidate]_vars

\* ---- properties of the consolidated table --------------------------------------------
Done == cpc = "done"
N == Len(df_all)

\* The rows are in the order of the final sort keys.
SortedByKeys ==
    \A p \in 1..N, q \in 1..N : p < q => ~KeyLess(FechaKey(df_all[q]), FechaKey(df_all[p]))

Tied(p, q) == KeyEq(FechaKey(df_all[p]), FechaKey(df_all[q]))

\* C1 (as stated): the output is sorted by (bank, year, month, sortable date); two
\* rows of the same statement with equal sort keys keep their original relative
\* order; tied rows of two statements are not interleaved: those of the statement
\* given earlier all come first.
C1_StableNoInterleave ==
    Done => /\ SortedByKeys
            /\ \A p \in 1..N, q \in 1..N :
                 (p < q /\ Tied(p, q)) =>
                    \/ df_all[p].src < df_all[q].src
                    \/ (df_all[p].src = df_all[q].src /\ df_all[p].idx < df_all[q].idx)

\* C2 (as stated): the June and July statements give exactly 10 rows, every June
\* row before every July row, each statement's 5 rows in their original order.
C2_JuneBeforeJuly ==
    Done => /\ N = 10
            /\ \A p \in 1..10 :
                 /\ df_all[p].src = (IF p <= 5 THEN 1 ELSE 2)
                 /\ df_all[p].idx = (IF p <= 5 THEN p ELSE p - 5)

\* No year/month can be derived for the item: no metadata, no numeric column, no
\* parseable date, no matching raw line.
NoPeriod(item) ==
    /\ ItemPeriod(item) = <<NoneCell, NoneCell>>
    /\ \A i \in 1..Len(item.df.rows) :
         /\ IsNA(ParseFecha(item.df.rows[i].fecha))
         /\ item.df.cols => (item.df.rows[i].anio.t # "num" /\ item.df.rows[i].mes.t # "num")

HasPeriodRow(r) == ~IsNA(r.anio) /\ ~IsNA(r.mes)

\* C3 (as stated): the rows of a statement without derivable year/month are in the
\* output with null year and month, after every row of the same bank that has a
\* year and a month.
C3_NullPeriodLast ==
    Done => \A k \in 1..Len(inputs) : NoPeriod(inputs[k]) =>
              /\ \A i \in 1..Len(inputs[k].df.rows) :
                   \E p \in 1..N : df_all[p].src = k /\ df_all[p].idx = i
              /\ \A p \in 1..N : df_all[p].src = k =>
                   /\ IsNA(df_all[p].anio) /\ IsNA(df_all[p].mes)
                   /\ \A q \in 1..N :
                        (df_all[q].src # k /\ df_all[q].banco = df_all[p].banco
                            /\ HasPeriodRow(df_all[q])) => q < p

\* The period of a statement in the order of priority "metadata, numeric columns,
\* earliest valid date, raw lines, null".
HasMetaPeriod(item) == item.meta.year.t = "num" /\ item.meta.month.t = "num"
HasColumnPeriod(item) ==
    item.df.cols /\ item.df.rows[1].anio.t = "num" /\ item.df.rows[1].mes.t = "num"
MetadataFirstPeriod(item) ==
    IF HasMetaPeriod(item) THEN <<item.meta.year, item.meta.month>>
    ELSE IF HasColumnPeriod(item) THEN <<item.df.rows[1].anio, item.df.rows[1].mes>>
    ELSE infer_period(item.df.rows, item.df.raw_lines)

\* C12 (as stated): the (year, month) of a statement is the metadata's when the
\* metadata carries one, else the table's numeric year/month columns, else the
\* earliest valid date of the date column, else the first raw line with a month
\* name or a dd/mm/yyyy date, else null; when metadata and columns disagree, the
\* rows of the output carry the metadata's period.
C12_MetadataFirst ==
    Done => \A k \in 1..Len(inputs) :
              /\ ItemPeriod(inputs[k]) = MetadataFirstPeriod(inputs[k])
              /\ (HasMetaPeriod(inputs[k]) /\ HasColumnPeriod(inputs[k])) =>
                    \A p \in 1..N : df_all[p].src = k =>
                        /\ df_all[p].anio = Some(inputs[k].meta.year.v)
                        /\ df_all[p].mes = Some(inputs[k].meta.month.v)

\* No row of the item has a parseable date.
Undated(item) == \A i \in 1..Len(item.df.rows) : IsNA(ParseFecha(item.df.rows[i].fecha))
SameBankMonth(r1, r2) == r1.banco = r2.banco /\ r1.anio = r2.anio /\ r1.mes = r2.mes

\* C13 (as stated): a statement none of whose rows has a parseable date keeps its
\* original row order in the consolidated output and is one contiguous block: no
\* row of another statement with the same bank and month key lies between two of
\* its rows, wherever the statement is in the input list.
C13_UndatedBlock ==
    Done => \A k \in 1..Len(inputs) : Undated(inputs[k]) =>
              \A p \in 1..N, r \in 1..N : (p < r /\ df_all[p].src = k /\ df_all[r].src = k) =>
                  /\ df_all[p].idx < df_all[r].idx
                  /\ \A q \in 1..N : (p < q /\ q < r /\ df_all[q].src # k) =>
                        ~SameBankMonth(df_all[q], df_all[p])

MaxPages == 4

\* BATCH_SIZE of extract_text_pages.
BATCH_SIZE == 10

\* The rule without its last alternative.
WithoutHeaderRule(headers, fechas, importes) ==
    \/ (headers >= 2 /\ (fechas >= 5 \/ importes >= 5))
    \/ (fechas >= 8 /\ importes >= 6)

\* _es_pagina_relevante (lines 94-104) on the three counts of a page's quick text.
_es_pagina_relevante(headers, fechas, importes) ==
    \/ (headers >= 2 /\ (fechas >= 5 \/ importes >= 5))
    \/ (fechas >= 8 /\ importes >= 6)
    \/ headers >= 3

\* The pages a document is made of: the counts found in the page's quick text.
PageKinds ==
    {[headers |-> 1, fechas |-> 4, importes |-> 4],     \* boilerplate
     [headers |-> 3, fechas |-> 0, importes |-> 0],     \* a table header
     [headers |-> 0, fechas |-> 8, importes |-> 6]}     \* rows without header

Min(a, b) == IF a < b THEN a ELSE b
SetOfSeq(s) == {s[k] : k \in 1..Len(s)}

\* relevantes_idx[i:i + BATCH_SIZE] (line 147), i counted from 0.
Batch(rel, i) == SubSeq(rel, i + 1, Min(i + BATCH_SIZE, Len(rel)))

\* convert_from_path(..., first_page=batch[0], last_page=batch[-1]) (lines 151-157):
\* the pages whose images it returns, in order.
BatchImages(batch) == [k \in 1..(batch[Len(batch)] - batch[1] + 1) |-> batch[1] + k - 1]

\* zip(batch, imgs_batch) (line 159): the k-th page number of the batch with the
\* k-th image.
ZipBatch(batch) ==
    [k \in 1..Min(Len(batch), Len(BatchImages(batch))) |->
        [idx |-> batch[k], img |-> BatchImages(batch)[k]]]

RECURSIVE UntilFailure(_, _, _)
\* The pairs up to the first recognition that raises.
UntilFailure(zipped, failed, k) ==
    IF k > Len(zipped) \/ k \in failed THEN <<>>
    ELSE <<[page |-> zipped[k].idx, text |-> zipped[k].img]>> \o UntilFailure(zipped, failed, k + 1)

RECURSIVE KeepOk(_, _, _)
\* The (idx, text) pairs of the zipped pairs from position k on whose recognition
\* did not raise; the text of a pair is the recognition of its image, modelled by the
\* page the image shows.
KeepOk(zipped, failed, k) ==
    IF k > Len(zipped) THEN <<>>
    ELSE (IF k \in failed THEN <<>> ELSE <<[page |-> zipped[k].idx, text |-> zipped[k].img]>>)
            \o KeepOk(zipped, failed, k + 1)

\* Nothing has raised yet.
NoFailure == [convert |-> FALSE, quick |-> {}, full |-> {}, batch |-> {}]

InitO ==
    /\ OthersIdleO
    /\ pages \in SeqsUpTo(PageKinds, MaxPages)
    /\ opc = "start" /\ oi = 0 /\ relevantes_idx = <<>>
    /\ resultados = <<>> /\ full_raster = {} /\ full_ocr = {} /\ imgs_held = 0
    /\ ofail = NoFailure

\* Lines 110-121: the quick rasterization, retried once without poppler_path; when
\* both attempts raise the function returns [].
QuickConvert ==
    /\ opc = "start"
    /\ \E ok \in BOOLEAN :
         IF ok THEN opc' = "quick" /\ oi' = 1 /\ ofail' = ofail
               ELSE opc' = "done" /\ oi' = 0 /\ ofail' = [ofail EXCEPT !.convert = TRUE]
    /\ UNCHANGED <<pages, relevantes_idx, resultados, full_raster, full_ocr, imgs_held, restO>>

\* Lines 122-135: one iteration of the quick loop; a page whose recognition raises
\* is logged and skipped.
QuickPage ==
    /\ opc = "quick" /\ oi <= Len(pages)
    /\ \E raises \in BOOLEAN :
         /\ relevantes_idx' =
               IF ~raises /\ _es_pagina_relevante(pages[oi].headers, pages[oi].fechas, pages[oi].importes)
               THEN Append(relevantes_idx, oi) ELSE relevantes_idx
         /\ ofail' = IF raises THEN [ofail EXCEPT !.quick = @ \cup {oi}] ELSE ofail
    /\ oi' = oi + 1
    /\ UNCHANGED <<pages, opc, resultados, full_raster, full_ocr, imgs_held, restO>>

\* Lines 137-144: after the quick loop.
QuickEnd ==
    /\ opc = "quick" /\ oi > Len(pages)
    /\ opc' = IF relevantes_idx = <<>> THEN "done" ELSE "full"
    /\ oi' = 0
    /\ UNCHANGED <<pages, relevantes_idx, resultados, full_raster, full_ocr, imgs_held, ofail, restO>>

\* Lines 146-171: one iteration of the batch loop.  The rasterization of the batch
\* may raise (the batch is logged and skipped); the recognition of each image may
\* raise (the page is logged and skipped).
FullBatch ==
    /\ opc = "full" /\ oi < Len(relevantes_idx)
    /\ LET batch == Batch(relevantes_idx, oi)
           zipped == ZipBatch(batch)
       IN  \E convertOk \in BOOLEAN :
             IF convertOk
             THEN \E failed \in SUBSET (1..Len(zipped)) :
                    /\ resultados' = resultados \o KeepOk(zipped, failed, 1)
                    /\ full_raster' = full_raster \cup SetOfSeq(BatchImages(batch))
                    /\ full_ocr' = full_ocr \cup {zipped[k].img : k \in 1..Len(zipped)}
                    /\ imgs_held' = Len(BatchImages(batch))
                    /\ ofail' = [ofail EXCEPT !.full = @ \cup {zipped[k].idx : k \in failed}]
             ELSE /\ ofail' = [ofail EXCEPT !.batch = @ \cup SetOfSeq(batch)]
                  /\ UNCHANGED <<resultados, full_raster, full_ocr, imgs_held>>
    /\ oi' = oi + BATCH_SIZE
    /\ UNCHANGED <<pages, opc, relevantes_idx, restO>>

\* Line 173: return resultados.
FullEnd ==
    /\ opc = "full" /\ oi >= Len(relevantes_idx)
    /\ opc' = "done"
    /\ imgs_held' = 0
    /\ UNCHANGED <<pages, oi, relevantes_idx, resultados, full_raster, full_ocr, ofail, restO>>

NextO == QuickConvert \/ QuickPage \/ QuickEnd \/ FullBatch \/ FullEnd

SpecOCR == InitO /\ [][NextO]_vars

\* ---- the relevance rule on its own -------------------------------------------------
\* Bound on each of the three counts of a page.
MaxCount == 9

\* One call _es_pagina_relevante(texto) on the quick text of a one-page document,
\* for every triple of counts; relevantes_idx receives the page when the call
\* returns True.
InitRelevance ==
    /\ OthersIdleO
    /\ \E h \in 0..MaxCount, f \in 0..MaxCount, a \in 0..MaxCount :
          pages = <<[headers |-> h, fechas |-> f, importes |-> a]>>
    /\ opc = "rule" /\ oi = 1 /\ relevantes_idx = <<>>
    /\ resultados = <<>> /\ full_raster = {} /\ full_ocr = {} /\ imgs_held = 0
    /\ ofail = NoFailure

EsPaginaRelevante ==
    /\ opc = "rule"
    /\ relevantes_idx' =
          IF _es_pagina_relevante(pages[oi].headers, pages[oi].fechas, pages[oi].importes)
          THEN <<oi>> ELSE <<>>
    /\ opc' = "ruled"
    /\ UNCHANGED <<pages, oi, resultados, full_raster, full_ocr, imgs_held, ofail, restO>>

SpecRelevance == InitRelevance /\ [][EsPaginaRelevante]_vars

\* C20: a page is marked relevant if and only if (headers >= 2 and (dates >= 5 or
\* amounts >= 5)) or (dates >= 8 and amounts >= 6) or headers >= 3, for every
\* triple of counts; a page with headers = 3 is relevant whatever its dates
\* and amounts.
C20_RelevanceRule ==
    opc = "ruled" =>
        LET p == pages[1]
        IN  /\ (relevantes_idx = <<1>>) <=>
                  \/ (p.headers >= 2 /\ (p.fechas >= 5 \/ p.importes >= 5))
                  \/ (p.fechas >= 8 /\ p.importes >= 6)
                  \/ p.headers >= 3
            /\ relevantes_idx \in {<<>>, <<1>>}
            /\ p.headers = 3 => relevantes_idx = <<1>>

\* A page with three header words and neither dates nor amounts has been marked.
C20_Witness ==
    /\ opc = "ruled" /\ relevantes_idx = <<1>>
    /\ pages[1] = [headers |-> 3, fechas |-> 0, importes |-> 0]

\* ---- the full pass on long documents ---------------------------------------------
\* Documents of MaxDocPages pages after a quick pass in which nothing raised:
\* the pages in marked are table headers, the others boilerplate.  The marked
\* sets tried are the sparse ones (one or two pages, anywhere) and the dense
\* ones (all pages but at most one), which need a second batch.
MaxDocPages == 12
RECURSIVE Ascending(_)
Ascending(S) ==
    IF S = {} THEN <<>>
    ELSE LET x == CHOOSE y \in S : \A z \in S : y <= z
         IN  <<x>> \o Ascending(S \ {x})
DocOf(marked) ==
    [p \in 1..MaxDocPages |->
        IF p \in marked THEN [headers |-> 3, fechas |-> 0, importes |-> 0]
        ELSE [headers |-> 1, fechas |-> 4, importes |-> 4]]

InitFullPass ==
    /\ OthersIdleO
    /\ \E marked \in SUBSET (1..MaxDocPages) :
          /\ Cardinality(marked) \in {1, 2} \/ Cardinality(marked) >= MaxDocPages - 1
          /\ pages = DocOf(marked)
          /\ relevantes_idx = Ascending(marked)
    /\ opc = "full" /\ oi = 0
    /\ resultados = <<>> /\ full_raster = {} /\ full_ocr = {} /\ imgs_held = 0
    /\ ofail = NoFailure

SpecFullPass == InitFullPass /\ [][FullBatch \/ FullEnd]_vars

\* C25 (as stated): a batch of the full pass rasterizes and holds at most
\* BATCH_SIZE page images at once, wherever the relevant pages are in the
\* document.
C25_BatchBoundsImages == imgs_held <= BATCH_SIZE

\* The pages of the document the rule marks relevant, and the pages returned.
RelevantPages ==
    {p \in 1..Len(pages) :
        _es_pagina_relevante(pages[p].headers, pages[p].fechas, pages[p].importes)}
ReturnedPages == {resultados[k].page : k \in 1..Len(resultados)}

\* C21: a page whose recognition raises, in the quick or in the full pass, is
\* skipped and nothing else is lost: when the run has returned (its
\* rasterizations having succeeded), the pages marked are the relevant pages
\* less those that failed in the quick pass, the pages returned are the marked
\* pages less those that failed in the full pass, each once, and without
\* relevant pages the result is the empty list.
C21_PageFailureSkipped ==
    (opc = "done" /\ ~ofail.convert) =>
        /\ SetOfSeq(relevantes_idx) = RelevantPages \ ofail.quick
        /\ ReturnedPages = SetOfSeq(relevantes_idx) \ (ofail.full \cup ofail.batch)
        /\ Len(resultados) = Cardinality(ReturnedPages)
        /\ relevantes_idx = <<>> => resultados = <<>>

\* A run has returned in which one page failed in the quick pass, another in
\* the full pass, and a third page is in the result.
C21_Witness ==
    /\ opc = "done" /\ ofail.quick # {} /\ ofail.full # {} /\ ofail.batch = {}
    /\ resultados # <<>>

\* C4 (as stated): the full-resolution pass rasterizes and recognizes only pages
\* the quick pass marked relevant.
C4_FullOnlyRelevant ==
    (full_raster \cup full_ocr) \subseteq SetOfSeq(relevantes_idx)

\* C5 (as stated): the returned pairs are in ascending page order, hold only pages
\* marked relevant, and the text of each pair is the full-pass recognition of that
\* very page.
C5_PairsOfOwnPage ==
    opc = "done" =>
        /\ \A k \in 1..Len(resultados) :
             /\ resultados[k].page \in SetOfSeq(relevantes_idx)
             /\ resultados[k].text = resultados[k].page
        /\ \A j \in 1..Len(resultados), k \in 1..Len(resultados) :
             j < k => resultados[j].page < resultados[k].page

(***************************************************************************)
(* Raw document reader: pdf_reader.py                                      *)
(***************************************************************************)

\* Bound on the number of calls made to one reader.
MaxCalls == 3

\* A path is the sequence of its components; an absolute path starts with "/".
Cwd == <<"/", "w">>
Paths == {<<"a.pdf">>, <<"/", "w", "a.pdf">>, <<"/", "w", "b.pdf">>}

\* os.path.abspath(pdf_path).
abspath(path) == IF Head(path) = "/" THEN path ELSE Cwd \o path

Files == {abspath(q) : q \in Paths}
\* What a file holds: nothing (the file is missing) or one of two documents.
Contents == {"none", "doc1", "doc2"}

\* A key that does not record the mode.
PathOnlyKey(pdf_path, prefer_tables) == <<abspath(pdf_path), "text">>

\* Line 61: the cache key.
cache_key(pdf_path, prefer_tables) ==
    <<abspath(pdf_path), IF prefer_tables THEN "tables" ELSE "text">>

\* The key the cache is specified to have: (absolute path, mode).
PathMode(pdf_path, prefer_tables) == <<abspath(pdf_path), prefer_tables>>

\* An order that does not depend on the hint.
TablesFirstAlways(prefer_tables) == <<"camelot", "pdfplumber", "ocr">>

\* Lines 65-70: the strategies of a call, in the order they are tried.
strategies(prefer_tables) ==
    IF prefer_tables THEN <<"camelot", "pdfplumber", "ocr">>
    ELSE <<"pdfplumber", "camelot", "ocr">>

EmptyContent == [raw |-> <<>>, text |-> <<>>]

\* What the libraries under a strategy can do with a file: extract something,
\* extract nothing, or raise; on a missing file they raise.
Outcomes(content) == IF content = "none" THEN {"raise"} ELSE {"content", "empty", "raise"}

\* The value of one strategy, given what its library did.  exc says whether an
\* exception leaves the strategy; each strategy catches every Exception and
\* returns ([], "").
_try_camelot(outcome, content) ==
    [raw |-> IF outcome = "content" THEN <<[by |-> "camelot", doc |-> content]>> ELSE <<>>,
     text |-> IF outcome = "content" THEN <<[by |-> "camelot", doc |-> content]>> ELSE <<>>,
     exc |-> FALSE]

_try_pdfplumber(outcome, content) ==
    [raw |-> IF outcome = "content" THEN <<[by |-> "pdfplumber", doc |-> content]>> ELSE <<>>,
     text |-> IF outcome = "content" THEN <<[by |-> "pdfplumber", doc |-> content]>> ELSE <<>>,
     exc |-> FALSE]

\* An OCR strategy without the except clause of line 124.
UnguardedOcr(outcome, content) ==
    [raw |-> IF outcome = "content" THEN <<[by |-> "ocr", doc |-> content]>> ELSE <<>>,
     text |-> IF outcome = "content" THEN <<[by |-> "ocr", doc |-> content]>> ELSE <<>>,
     exc |-> outcome = "raise"]

_try_ocr(outcome, content) ==
    [raw |-> IF outcome = "content" THEN <<[by |-> "ocr", doc |-> content]>> ELSE <<>>,
     text |-> IF outcome = "content" THEN <<[by |-> "ocr", doc |-> content]>> ELSE <<>>,
     exc |-> FALSE]

\* f with key k set to v (k may be new).
Put(f, k, v) == [x \in DOMAIN f \cup {k} |-> IF x = k THEN v ELSE f[x]]
Count(f, k) == IF k \in DOMAIN f THEN f[k] ELSE 0

InitR ==
    /\ OthersIdleR
    /\ disk \in [Files -> Contents]
    /\ cache = <<>> /\ rpc = "idle" /\ rcall = <<>> /\ rtrace = <<>>
    /\ rret = <<>> /\ rruns = <<>> /\ rfirst = <<>> /\ ncalls = 0

\* The value [raw, text] is returned for the running call.
Returns(pm, value) ==
    /\ rret' = <<[pm |-> pm, value |-> value]>>
    /\ rfirst' = IF pm \in DOMAIN rfirst THEN rfirst ELSE Put(rfirst, pm, value)
    /\ rpc' = "idle"

\* Lines 60-70: a call extract_all(pdf_path, prefer_tables); a cached key returns
\* at once.
Call ==
    /\ rpc \in {"idle", "raised"} /\ ncalls < MaxCalls
    /\ ncalls' = ncalls + 1
    /\ rtrace' = <<>>
    /\ \E pdf_path \in Paths, prefer_tables \in BOOLEAN :
         LET key == cache_key(pdf_path, prefer_tables)
             pm == PathMode(pdf_path, prefer_tables)
         IN  IF key \in DOMAIN cache
             THEN /\ Returns(pm, cache[key])
                  /\ rcall' = <<>>
                  /\ UNCHANGED rruns
             ELSE /\ rpc' = "trying"
                  /\ rcall' = <<[pdf_path |-> pdf_path, key |-> key, pm |-> pm,
                                 left |-> strategies(prefer_tables)]>>
                  /\ rruns' = Put(rruns, pm, Count(rruns, pm) + 1)
                  /\ UNCHANGED <<rret, rfirst>>
    /\ UNCHANGED <<disk, cache, restR>>

\* Lines 72-76: one iteration of the loop over the strategies, res being the value
\* of the strategy and outcome what its library did.
Iteration(name, outcome, res) ==
    /\ rtrace' = Append(rtrace, [strategy |-> name, outcome |-> outcome])
    /\ IF res.exc
       THEN /\ rpc' = "raised"
            /\ rcall' = <<>>
            /\ UNCHANGED <<cache, rret, rfirst>>
       ELSE IF res.raw # <<>>
       THEN /\ cache' = Put(cache, rcall[1].key, [raw |-> res.raw, text |-> res.text])
            /\ Returns(rcall[1].pm, [raw |-> res.raw, text |-> res.text])
            /\ rcall' = <<>>
       ELSE /\ rcall' = <<[rcall[1] EXCEPT !.left = Tail(@)]>>
            /\ UNCHANGED <<cache, rpc, rret, rfirst>>
    /\ UNCHANGED <<disk, rruns, ncalls, restR>>

Running(name) == rpc = "trying" /\ rcall[1].left # <<>> /\ Head(rcall[1].left) = name

TryCamelot ==
    /\ Running("camelot")
    /\ \E outcome \in Outcomes(disk[abspath(rcall[1].pdf_path)]) :
         Iteration("camelot", outcome, _try_camelot(outcome, disk[abspath(rcall[1].pdf_path)]))

TryPdfplumber ==
    /\ Running("pdfplumber")
    /\ \E outcome \in Outcomes(disk[abspath(rcall[1].pdf_path)]) :
         Iteration("pdfplumber", outcome, _try_pdfplumber(outcome, disk[abspath(rcall[1].pdf_path)]))

TryOcr ==
    /\ Running("ocr")
    /\ \E outcome \in Outcomes(disk[abspath(rcall[1].pdf_path)]) :
         Iteration("ocr", outcome, _try_ocr(outcome, disk[abspath(rcall[1].pdf_path)]))

\* Lines 78-79: no strategy yielded content.
AllFailed ==
    /\ rpc = "trying" /\ rcall[1].left = <<>>
    /\ cache' = Put(cache, rcall[1].key, EmptyContent)
    /\ Returns(rcall[1].pm, EmptyContent)
    /\ rcall' = <<>>
    /\ UNCHANGED <<disk, rtrace, rruns, ncalls, restR>>

\* Outside the reader: a file is written, replaced or removed between two calls.
WriteFile ==
    /\ rpc \in {"idle", "raised"} /\ ncalls < MaxCalls
    /\ \E f \in Files, c \in Contents : c # disk[f] /\ disk' = [disk EXCEPT ![f] = c]
    /\ UNCHANGED <<cache, rpc, rcall, rtrace, rret, rruns, rfirst, ncalls, restR>>

NextR == Call \/ TryCamelot \/ TryPdfplumber \/ TryOcr \/ AllFailed \/ WriteFile

SpecReader == InitR /\ [][NextR]_vars

\* The mode of the call whose strategies rtrace lists.
TraceMode == IF rcall # <<>> THEN rcall[1].pm[2] ELSE rret[1].pm[2]
\* The call that ran the strategies of rtrace has returned.
RunReturned == rpc = "idle" /\ rret # <<>> /\ rtrace # <<>>
\* The last call returned from the cache.
HitReturned == rpc = "idle" /\ rret # <<>> /\ rtrace = <<>>
NoContentBefore(i, name) ==
    \E j \in 1..(i - 1) : rtrace[j].strategy = name /\ rtrace[j].outcome # "content"

\* C6: the strategies of a call run one after another, each at most once; OCR
\* runs only after table extraction and native-text extraction both yielded
\* nothing; no strategy runs after one that yielded content; and the first
\* strategy is table extraction when prefer_tables is set, native-text
\* extraction otherwise.
C6_StrategyOrder ==
    /\ Len(rtrace) <= 3
    /\ \A i, j \in DOMAIN rtrace : i < j => rtrace[i].strategy # rtrace[j].strategy
    /\ \A i \in DOMAIN rtrace :
         rtrace[i].strategy = "ocr" =>
            NoContentBefore(i, "camelot") /\ NoContentBefore(i, "pdfplumber")
    /\ \A i, j \in DOMAIN rtrace : i < j => rtrace[i].outcome # "content"
    /\ rtrace # <<>> =>
         rtrace[1].strategy = (IF TraceMode THEN "camelot" ELSE "pdfplumber")
    /\ Len(rtrace) >= 2 =>
         rtrace[2].strategy = (IF TraceMode THEN "pdfplumber" ELSE "camelot")

\* A call with prefer_tables set reached OCR, which yielded content.
C6_Witness ==
    /\ RunReturned /\ rret[1].pm[2]
    /\ Len(rtrace) = 3 /\ rtrace[3].strategy = "ocr" /\ rtrace[3].outcome = "content"

\* C7: whatever each strategy's library does (content, nothing, an exception,
\* a missing file), the call returns and never raises; after a strategy whose
\* library raised the next strategy is still tried; and the call returns the
\* empty content exactly when no strategy yielded content.
C7_NeverRaises ==
    /\ rpc # "raised"
    /\ RunReturned =>
         /\ rtrace[Len(rtrace)].outcome = "content" \/ Len(rtrace) = 3
         /\ rret[1].value = EmptyContent <=>
               \A i \in DOMAIN rtrace : rtrace[i].outcome # "content"

\* A call on a missing file: the three libraries raised and the call returned
\* the empty content.
C7_Witness ==
    /\ RunReturned /\ rret[1].value = EmptyContent
    /\ disk[rret[1].pm[1]] = "none"
    /\ Len(rtrace) = 3 /\ \A i \in DOMAIN rtrace : rtrace[i].outcome = "raise"

\* C8: for one reader, the strategies run at most once per (absolute path,
\* mode); every call returns what the first call for its (absolute path, mode)
\* returned, the empty content included; and a call never returns from the
\* entry of the other mode.
C8_CachePerPathMode ==
    /\ \A pm \in DOMAIN rruns : rruns[pm] <= 1
    /\ rpc = "idle" /\ rret # <<>> =>
         /\ Count(rruns, rret[1].pm) = 1
         /\ rret[1].value = rfirst[rret[1].pm]

\* A call returned a cached empty result while the other mode of the same
\* path holds a result with content.
C8_Witness ==
    /\ HitReturned /\ rret[1].value = EmptyContent
    /\ \E pm \in DOMAIN rfirst :
         /\ pm[1] = rret[1].pm[1] /\ pm[2] # rret[1].pm[2]
         /\ rfirst[pm] # EmptyContent

(***************************************************************************)
(* Statement extraction: universal_extractor.py, parser_factory.py and     *)
(* the job worker of services/extractos_service.py                         *)
(***************************************************************************)

\* Bound on the number of files of a job.
MaxFiles == 2

FORCE_OCR_BANKS == {"ICBC", "COMAFI", "MERCADOPAGO", "SUPERVIELLE", "GALICIA"}
\* Line 22; extract_from_pdf does not read it.
SKIP_CAMELOT_BANKS == {"MACRO"}

\* The allow-list of bank names of parse_filename_metadata and
\* _detect_bank_from_filename, in its order.
banks ==
    <<"BBVA", "BPN", "CIUDAD", "CREDICOOP", "GALICIA", "HIPOTECARIO", "HSBC",
      "ICBC", "ITAU", "MACRO", "MERCADOPAGO", "NACION", "PATAGONIA",
      "PROVINCIA", "RIOJA", "SANJUAN", "SANTANDER", "SUPERVIELLE", "COMAFI">>

\* The alias table of _detect_bank_hint, in its order.
hints ==
    << [code |-> "ITAU", keys |-> {"ITAU", "ITAÚ"}],
       [code |-> "RIOJA", keys |-> {"BANCO RIOJA", "LA RIOJA"}],
       [code |-> "BPN", keys |-> {"BANCO PROVINCIA NEUQUEN", "BPN"}],
       [code |-> "NACION", keys |-> {"BANCO DE LA NACION", "BANCO NACION", "BNA"}],
       [code |-> "MACRO", keys |-> {"BANCO MACRO", "MACRO"}],
       [code |-> "PATAGONIA", keys |-> {"BANCO PATAGONIA", "PATAGONIA EBANK", "PATAGONIA"}],
       [code |-> "SANJUAN", keys |-> {"BANCO SAN JUAN", "SAN JUAN"}],
       [code |-> "BBVA", keys |-> {"BBVA", "FRANCES", "BANCO FRANCES"}],
       [code |-> "GALICIA", keys |-> {"BANCO GALICIA", "OFFICE BANKING GALICIA"}],
       [code |-> "SUPERVIELLE", keys |-> {"SUPERVIELLE", "BANCO SUPERVIELLE"}],
       [code |-> "HIPOTECARIO", keys |-> {"BANCO HIPOTECARIO", "HIPOTECARIO"}],
       [code |-> "ICBC", keys |-> {"ICBC", "INDUSTRIAL AND COMMERCIAL BANK OF CHINA"}],
       [code |-> "HSBC", keys |-> {"HSBC", "HSBC ARGENTINA"}],
       [code |-> "COMAFI", keys |-> {"BANCO COMAFI", "COMAFI"}],
       [code |-> "CREDICOOP", keys |-> {"BANCO CREDICOOP", "CREDICOOP"}],
       [code |-> "PROVINCIA", keys |-> {"BANCO PROVINCIA", "BAPRO", "BANCO DE LA PROVINCIA"}],
       [code |-> "MERCADOPAGO", keys |-> {"MERCADO PAGO", "MERCADOPAGO"}] >>

\* A file name is the sequence of the parts of its stem between "-", "_" and
\* " "; the names of the model are written in lower case.
Filenames ==
    { <<"acme", "nacion", "jun2025">>,
      <<"acme", "galicia", "jun2025">>,
      <<"acme", "sanjuan", "jun2025">>,
      <<"nacion", "jun2025">>,
      <<"extracto", "bna", "jun2025">>,
      <<"extracto", "jun2025">> }

\* str.upper() and str.title() on the words of the model.
Cases ==
    << <<"acme", "ACME", "Acme">>, <<"nacion", "NACION", "Nacion">>,
       <<"galicia", "GALICIA", "Galicia">>, <<"sanjuan", "SANJUAN", "Sanjuan">>,
       <<"jun2025", "JUN2025", "Jun2025">>, <<"bna", "BNA", "Bna">>,
       <<"extracto", "EXTRACTO", "Extracto">> >>
CaseOf(w) == CHOOSE i \in DOMAIN Cases : w \in SetOfSeq(Cases[i])
CaseWords == UNION {SetOfSeq(Cases[i]) : i \in DOMAIN Cases}
UpperOf == [w \in CaseWords |-> Cases[CaseOf(w)][2]]
TitleOf == [w \in CaseWords |-> Cases[CaseOf(w)][3]]
Upper(w) == IF w \in CaseWords THEN UpperOf[w] ELSE w
Title(w) == IF w \in CaseWords THEN TitleOf[w] ELSE w
UpperAll(q) == [i \in DOMAIN q |-> Upper(q[i])]
TitleAll(q) == [i \in DOMAIN q |-> Title(q[i])]

\* "key in word" for the upper-case words of the model: no word of the model
\* contains a key or a bank name without being equal to it.
Occurs(key, word) == key = word
\* The period part names a month or a four-digit year.
NamesPeriod(word) == word \in {"JUN2025"}

\* The least element of a set of positive integers, or 0.
Least(S) == IF S = {} THEN 0 ELSE CHOOSE i \in S : \A j \in S : i <= j
\* a or b, on strings.
Or(a, b) == IF a # "" THEN a ELSE b

NoFilenameMeta == [empresa |-> <<>>, banco |-> "", periodo |-> <<>>]

IsBankName(part) == part \in SetOfSeq(banks)
HasBankName(part) == \E b \in DOMAIN banks : Occurs(banks[b], part)

\* Lines 92-118: the metadata, given the parts and the index of the bank name.
MetaAt(parts, banco_idx) ==
    IF banco_idx = 0 \/ banco_idx >= Len(parts) THEN NoFilenameMeta
    ELSE [empresa |-> TitleAll(SubSeq(parts, 1, banco_idx - 1)),
          banco |-> Upper(parts[banco_idx]),
          periodo |-> TitleAll(
                             IF NamesPeriod(parts[Len(parts)])
                             THEN <<parts[Len(parts)]>>
                             ELSE <<parts[Len(parts) - 1], parts[Len(parts)]>>)]

\* Lines 74-90.
MetaOfParts(parts) ==
    IF Len(parts) < 3 THEN NoFilenameMeta ELSE MetaAt(parts, Least({i \in DOMAIN parts : IsBankName(parts[i])}))

\* Lines 64-118.  empresa and periodo are the sequences of their "-"-joined
\* words.
parse_filename_metadata(filename) == MetaOfParts(UpperAll(filename))

\* Lines 132-136: the first bank of the allow-list that occurs in the part at p.
BankInPart(parts, p) ==
    IF p = 0 THEN ""
    ELSE banks[Least({b \in DOMAIN banks : Occurs(banks[b], parts[p])})]

BankInParts(parts) == BankInPart(parts, Least({i \in DOMAIN parts : HasBankName(parts[i])}))

\* Lines 122-136.
_detect_bank_from_filename(filename) ==
    IF filename = <<>> THEN "" ELSE BankInParts(UpperAll(filename))

CodeAt(i) == IF i = 0 THEN "" ELSE hints[i].code

\* Lines 161-169, hay_file being the upper-case file name.
HintIn(blob_text, hay_file) ==
    LET InFile(h) == \E k \in h.keys, i \in DOMAIN hay_file : Occurs(k, hay_file[i])
        InText(h) == h.keys \cap blob_text # {}
    IN  Or(CodeAt(Least({h \in DOMAIN hints : InFile(hints[h])})),
           CodeAt(Least({h \in DOMAIN hints : InText(hints[h])})))

\* The alias table applied to the text before the file name.
TextFirstHint(blob_text, filename) ==
    LET InFile(h) == \E k \in h.keys, i \in DOMAIN filename : Occurs(k, Upper(filename[i]))
        InText(h) == h.keys \cap blob_text # {}
    IN  Or(CodeAt(Least({h \in DOMAIN hints : InText(hints[h])})),
           CodeAt(Least({h \in DOMAIN hints : InFile(hints[h])})))

\* Lines 139-169.  blob_text is the set of alias phrases that occur in the text.
_detect_bank_hint(blob_text, filename) == HintIn(blob_text, UpperAll(filename))

\* A PDF: the lines and characters of its native text layer, what lattice table
\* detection finds in it, the lines character recognition reads from its
\* pages, and the alias phrases its text holds.
PdfKinds ==
    { [n_text |-> 8, chars |-> 500, lattice |-> "rows", scan |-> 8, phrases |-> {}],
      [n_text |-> 8, chars |-> 500, lattice |-> "none", scan |-> 8,
       phrases |-> {"BANCO MACRO", "MACRO"}],
      [n_text |-> 0, chars |-> 0, lattice |-> "none", scan |-> 8, phrases |-> {"SAN JUAN"}],
      [n_text |-> 3, chars |-> 120, lattice |-> "norows", scan |-> 0, phrases |-> {}],
      [n_text |-> 0, chars |-> 0, lattice |-> "none", scan |-> 0, phrases |-> {}] }

\* Lines 172-187.
_is_image_based_pdf(pdf) == pdf.chars < 100

\* What the library under a reader strategy does with a PDF.
LibraryOutcome(name, pdf) ==
    CASE name = "pdfplumber" -> IF pdf.n_text > 0 THEN "content" ELSE "empty"
      [] name = "camelot" -> IF pdf.lattice # "none" THEN "content" ELSE "empty"
      [] name = "ocr" -> IF pdf.scan > 0 THEN "content" ELSE "empty"

TryStrategy(name, pdf) ==
    CASE name = "pdfplumber" -> _try_pdfplumber(LibraryOutcome(name, pdf), pdf)
      [] name = "camelot" -> _try_camelot(LibraryOutcome(name, pdf), pdf)
      [] name = "ocr" -> _try_ocr(LibraryOutcome(name, pdf), pdf)

\* pdf_reader.py lines 72-79: the value of the strategy at index first of
\* order, or the empty content when first is 0.
ValueOf(res) == [raw |-> res.raw, text |-> res.text]
ValueAt(order, first, pdf) ==
    IF first = 0 THEN EmptyContent ELSE ValueOf(TryStrategy(order[first], pdf))
FirstContent(order, pdf) ==
    LET HasRaw(name) == TryStrategy(name, pdf).raw # <<>>
    IN  ValueAt(order, Least({i \in DOMAIN order : HasRaw(order[i])}), pdf)

\* pdf_reader.py lines 61-63 and 75-79: the value returned under key and the
\* cache after the call, value being what the strategies yield.
Cached(c, key, value) ==
    IF key \in DOMAIN c THEN [value |-> c[key], cache |-> c]
    ELSE [value |-> value, cache |-> Put(c, key, value)]

\* pdf_reader.py lines 60-79 as one step: the value returned for the file at
\* pdf_path, which holds pdf, and the cache after the call.
_extract_pdf(c, pdf_path, prefer_tables, pdf) ==
    Cached(c, cache_key(pdf_path, prefer_tables), FirstContent(strategies(prefer_tables), pdf))

\* The number of lines of a text that survive _preclean_lines.
CleanLines(by, pdf) ==
    CASE by = "pdfplumber" -> pdf.n_text
      [] by = "camelot" -> IF pdf.lattice = "rows" THEN 8 ELSE 0
      [] by = "ocr" -> pdf.scan
LinesOf(n, pdf) == [n |-> n, phrases |-> IF n > 0 THEN pdf.phrases ELSE {}]

\* Lines 200-205: the lines of the text the reader returned: how many survive
\* _preclean_lines, and the alias phrases they hold.
TextLines(text_raw) ==
    IF text_raw = <<>> THEN [n |-> 0, phrases |-> {}]
    ELSE LinesOf(CleanLines(text_raw[1].by, text_raw[1].doc), text_raw[1].doc)

\* camelot_utils.py lines 12-44: the tables lattice detection returns.
extract_tables_with_camelot(pdf) ==
    CASE pdf.lattice = "rows" -> <<[origin |-> "camelot", rows |-> 2]>>
      [] pdf.lattice = "norows" -> <<[origin |-> "camelot", rows |-> 0]>>
      [] pdf.lattice = "none" -> <<>>

\* unificador.py lines 228-257.
unify_camelot_tables(camelot_tables) ==
    [i \in DOMAIN camelot_tables |->
        [origin |-> "camelot", rows |-> camelot_tables[i].rows,
         empresa |-> NA, banco |-> NA, periodo |-> NA, archivo |-> NA]]

\* ocr_extractor.py lines 180-185: a list of (page number, text) tuples, one
\* per recognized relevant page.
ocr_extract_pages(pdf) ==
    IF pdf.scan > 0 THEN <<[type |-> "tuple", lines |-> pdf.scan]>> ELSE <<>>

\* Lines 240-245: the lines of the items of ocr_text that are strings.
RECURSIVE OcrLinesRaw(_)
OcrLinesRaw(ocr_text) ==
    IF ocr_text = <<>> THEN 0
    ELSE (IF Head(ocr_text).type = "str" THEN Head(ocr_text).lines ELSE 0)
         + OcrLinesRaw(Tail(ocr_text))

\* parser_factory.py lines 31-55.
_PARSERS ==
    << <<"SUPERVIELLE", "SupervielleParser">>, <<"GALICIA_MAS", "GaliciaMasParser">>,
       <<"GALICIA", "GaliciaParser">>, <<"ITAU", "ItauParser">>,
       <<"MACRO", "MacroParser">>, <<"COMAFI", "ComafiParser">>,
       <<"BPN", "BPNParser">>, <<"RIOJA", "RiojaParser">>,
       <<"HIPOTECARIO", "HipotecarioParser">>, <<"MERCADOPAGO", "MercadoPagoParser">>,
       <<"SANTANDER", "SantanderParser">>, <<"NACION", "NacionParser">>,
       <<"PROVINCIA", "ProvinciaParser">>, <<"SAN_JUAN", "SanJuanParser">>,
       <<"PATAGONIA", "PatagoniaParser">>, <<"BBVA", "BBVAParser">>,
       <<"ICBC", "ICBCParser">>, <<"CIUDAD", "CiudadParser">>,
       <<"CREDICOOP", "CredicoopParser">>, <<"HSBC", "HSBCParser">>,
       <<"GENERIC", "GenericParser">> >>

Registered(code) == \E i \in DOMAIN _PARSERS : _PARSERS[i][1] = code
ParserOf(code) == _PARSERS[CHOOSE i \in DOMAIN _PARSERS : _PARSERS[i][1] = code][2]

\* A lookup without the default.
LookupOnly(bank_name) ==
    IF Registered(Upper(bank_name)) THEN ParserOf(Upper(bank_name)) ELSE ""

\* parser_factory.py lines 58-60.
get_parser(bank_name) ==
    IF Registered(Upper(bank_name)) THEN ParserOf(Upper(bank_name)) ELSE "GenericParser"

\* What parse can do on n lines: return a table with rows, return an empty
\* table, or raise.  NacionParser raises instead of returning an empty table
\* (nacion.py lines 12-17); GenericParser returns an empty table on no lines
\* (generic_parser.py lines 13-35).
ParseOutcomes(parser, n) ==
    CASE parser = "GenericParser" -> IF n = 0 THEN {"empty"} ELSE {"rows", "empty"}
      [] parser = "NacionParser" -> IF n = 0 THEN {"raise"} ELSE {"rows", "raise"}
      [] OTHER -> IF n = 0 THEN {"empty", "raise"} ELSE {"rows", "empty", "raise"}

\* Lines 215-248, the bank code being known.
Stages(read, meta, lines, bank_hint, skip_camelot, should_use_ocr, pdf) ==
    [cache |-> read.cache,
     meta |-> meta,
     bank_hint |-> bank_hint,
     phrases |-> lines.phrases,
     pre_lines |-> lines.n,
     ocr_text |-> IF should_use_ocr THEN ocr_extract_pages(pdf) ELSE <<>>,
     skip_camelot |-> skip_camelot,
     tables |-> unify_camelot_tables(IF skip_camelot THEN <<>>
                                     ELSE extract_tables_with_camelot(pdf)),
     should_use_ocr |-> should_use_ocr,
     used_ocr |-> should_use_ocr /\ ocr_extract_pages(pdf) # <<>>,
     text_lines_clean |->
         lines.n + (IF should_use_ocr THEN OcrLinesRaw(ocr_extract_pages(pdf)) ELSE 0),
     parser |-> get_parser(bank_hint)]

\* Lines 215-217 and 230-233.
Decide(read, meta, lines, bank_hint, pdf) ==
    Stages(read, meta, lines, bank_hint,
           bank_hint \in FORCE_OCR_BANKS \/ _is_image_based_pdf(pdf),
           bank_hint \in FORCE_OCR_BANKS \/ lines.n < 5,
           pdf)

\* Line 212.
Classify(read, meta, lines, pdf, filename_hint) ==
    Decide(read, meta, lines,
           Or(meta.banco,
              Or(_detect_bank_from_filename(filename_hint),
                 Or(_detect_bank_hint(lines.phrases, filename_hint), "GENÉRICO"))),
           pdf)

\* Lines 200-209.
Prepare(read, pdf, filename_hint) ==
    Classify(read, parse_filename_metadata(filename_hint), TextLines(read.value.text),
             pdf, filename_hint)

\* Lines 199-257 of extract_from_pdf: everything before parse is called.
BeforeParse(c, pdf_path, pdf, filename_hint) ==
    Prepare(_extract_pdf(c, pdf_path, FALSE, pdf), pdf, filename_hint)

\* Lines 263-288: the table of a parser that returned rows.
Finalize(meta, filename_hint) ==
    [origin |-> "parser", rows |-> 2,
     empresa |-> Some(meta.empresa), banco |-> Some(meta.banco),
     periodo |-> Some(meta.periodo), archivo |-> Some(filename_hint)]

\* Lines 256-303, b being what lines 199-257 computed and outcome what parse
\* does.  ran lists the parsers whose parse was called.
AfterParse(b, filename_hint, outcome) ==
    [cache |-> b.cache,
     raised |-> FALSE,
     ran |-> IF b.parser # "" THEN <<b.parser>> ELSE <<>>,
     text_lines |-> b.text_lines_clean,
     tables |-> IF b.parser # "" /\ outcome = "rows"
                THEN <<Finalize(b.meta, filename_hint)>> ELSE b.tables,
     bank_hint |-> b.bank_hint,
     metadata |-> b.meta,
     method |-> [ocr |-> b.used_ocr]]

\* Lines 197-303: extract_from_pdf on the file at pdf_path, which holds pdf, by
\* an extractor whose reader has cache c.
extract_from_pdf(c, pdf_path, pdf, filename_hint, outcome) ==
    AfterParse(BeforeParse(c, pdf_path, pdf, filename_hint), filename_hint, outcome)

Pdfs == [filename : Filenames, content : PdfKinds]
job_id == "job"
\* Line 47.
TempPath(filename) == <<"/", "uploads", <<job_id, filename>>>>

\* routes/extractos.py lines 23-52: a job has been created for the uploaded
\* files and its worker thread started.
InitE ==
    /\ OthersIdleE
    /\ \E n \in 1..MaxFiles : uploads \in [1..n -> Pdfs]
    /\ jpc = "start" /\ epos = 1
    /\ job_resultados = <<>> /\ errores = <<>> /\ elog = <<>>
    /\ job = [state |-> "PENDING", result_file |-> NA, results |-> NA]
    /\ other_jobs = [j \in {"job-0"} |-> [state |-> "PENDING", result_file |-> NA, results |-> NA]]

\* Lines 13-30 and 32-34.
StartJob ==
    /\ jpc = "start"
    /\ jpc' = "loop"
    /\ job' = [job EXCEPT !.state = "PROGRESS"]
    /\ UNCHANGED <<uploads, epos, job_resultados, errores, elog, cache, restE>>

\* Lines 61-93 and 100-106: the status of a file.
StatusOf(result) ==
    IF result.raised THEN "error"
    ELSE IF result.tables = <<>> THEN "no_data"
    ELSE IF result.tables[1].rows = 0 THEN "empty"
    ELSE "success"

\* Lines 61-106: the lists after a file.
Classified(filename, b, outcome, result, status) ==
    /\ cache' = result.cache
    /\ job_resultados' =
          IF status = "success"
          THEN Append(job_resultados,
                      [df |-> result.tables[1],
                       meta |-> [bank |-> result.bank_hint,
                                 filename |-> filename,
                                 empresa |-> result.metadata.empresa,
                                 periodo |-> result.metadata.periodo]])
          ELSE job_resultados
    /\ errores' =
          IF status = "success" THEN errores
          ELSE Append(errores, [name |-> filename, status |-> status])
    /\ elog' = Append(elog,
                      [idx |-> epos,
                       filename |-> filename, bank_hint |-> result.bank_hint,
                       parser |-> b.parser, ran |-> result.ran,
                       outcome |-> outcome, raised |-> result.raised,
                       phrases |-> b.phrases,
                       pre_lines |-> b.pre_lines, ocr_text |-> b.ocr_text,
                       skip_camelot |-> b.skip_camelot,
                       should_use_ocr |-> b.should_use_ocr,
                       used_ocr |-> result.method.ocr,
                       text_lines |-> result.text_lines,
                       metadata |-> result.metadata,
                       tables |-> result.tables, status |-> status])

Extracted(filename, b, outcome, result) ==
    Classified(filename, b, outcome, result, StatusOf(result))

\* Lines 56-106, b being what extract_from_pdf computed before parse.
Dispatch(filename, b) ==
    \E outcome \in ParseOutcomes(b.parser, b.text_lines_clean) :
        Extracted(filename, b, outcome, AfterParse(b, filename, outcome))

\* Lines 47-50 and 100-106: the temporary file cannot be written, and the
\* handler of the iteration records the error.
SaveFails(filename) ==
    /\ errores' = Append(errores, [name |-> filename, status |-> "error"])
    /\ UNCHANGED <<cache, job_resultados, elog>>

\* Lines 37-106: one iteration of the loop over the files.
ProcessFile ==
    /\ jpc = "loop" /\ epos <= Len(uploads)
    /\ \/ SaveFails(uploads[epos].filename)
       \/ Dispatch(uploads[epos].filename,
                   BeforeParse(cache, TempPath(uploads[epos].filename),
                               uploads[epos].content, uploads[epos].filename))
    /\ epos' = epos + 1
    /\ UNCHANGED <<uploads, jpc, job, restE>>

\* Lines 108-162: the archive is written.
Consolidar ==
    /\ jpc = "loop" /\ epos > Len(uploads)
    /\ jpc' = "zipped"
    /\ UNCHANGED <<uploads, epos, job_resultados, errores, job, elog, cache, restE>>

\* Line 165.
SetState ==
    /\ jpc = "zipped"
    /\ jpc' = "state_set"
    /\ job' = [job EXCEPT !.state = "SUCCESS"]
    /\ UNCHANGED <<uploads, epos, job_resultados, errores, elog, cache, restE>>

\* Lines 166-167.
SetResultFile ==
    /\ jpc = "state_set"
    /\ jpc' = "file_set"
    /\ job' = [job EXCEPT !.result_file = Some(<<job_id, "extractos.zip">>)]
    /\ UNCHANGED <<uploads, epos, job_resultados, errores, elog, cache, restE>>

\* Lines 169-187.
SetResults ==
    /\ jpc = "file_set"
    /\ jpc' = "done"
    /\ job' = [job EXCEPT !.results =
                 Some([total |-> Len(uploads),
                       success |-> Len(job_resultados),
                       errors |-> Len(errores),
                       results |->
                           [i \in DOMAIN job_resultados |->
                               [name |-> job_resultados[i].meta.filename,
                                status |-> "success"]]
                           \o errores])]
    /\ UNCHANGED <<uploads, epos, job_resultados, errores, elog, cache, restE>>

\* A handler that would also catch an exception raised after line 165.
LateFatalError ==
    /\ jpc \in {"start", "loop", "state_set"} /\ (jpc = "loop" => epos > Len(uploads))
    /\ jpc' = "failed"
    /\ job' = [job EXCEPT !.state = "FAILURE"]
    /\ UNCHANGED <<uploads, epos, job_resultados, errores, elog, cache, restE>>

\* Lines 189-196: an exception outside the per-file handler (the folders cannot
\* be made, the archive cannot be written).
FatalError ==
    /\ jpc \in {"start", "loop"} /\ (jpc = "loop" => epos > Len(uploads))
    /\ jpc' = "failed"
    /\ job' = [job EXCEPT !.state = "FAILURE"]
    /\ UNCHANGED <<uploads, epos, job_resultados, errores, elog, cache, restE>>

NextE ==
    StartJob \/ ProcessFile \/ Consolidar \/ SetState \/ SetResultFile \/ SetResults
    \/ FatalError

SpecExtract == InitE /\ [][NextE]_vars

\* Entry i of elog is a file whose parser raised.
ParserRaised(i) == elog[i].outcome = "raise"
\* C9 as stated: whenever the parser selected for a file raised, the generic
\* parser was run for that file.
C9_GenericAfterRaise ==
    \A i \in DOMAIN elog :
        ParserRaised(i) => \E k \in DOMAIN elog[i].ran : elog[i].ran[k] = "GenericParser"

\* C9: exactly one parser is run per file: the registry's parser of the bank
\* code when the code is a key of the registry, the generic parser when it is
\* not; when that parser raises, no other parser is run.
C9_GenericOnlyForUnknownCodes ==
    \A i \in DOMAIN elog :
        /\ Len(elog[i].ran) = 1
        /\ \A k \in DOMAIN _PARSERS :
              _PARSERS[k][1] = elog[i].bank_hint => elog[i].ran[1] = _PARSERS[k][2]
        /\ (\A k \in DOMAIN _PARSERS : _PARSERS[k][1] # elog[i].bank_hint)
              => elog[i].ran[1] = "GenericParser"

\* One file's own parser raised and was the only one run; another file's bank
\* code is not a key of the registry and the generic parser was run.
C9_Witness ==
    /\ \E i \in DOMAIN elog :
          ParserRaised(i) /\ elog[i].bank_hint = "NACION" /\ elog[i].ran = <<"NacionParser">>
    /\ \E i \in DOMAIN elog :
          elog[i].bank_hint = "SANJUAN" /\ elog[i].ran = <<"GenericParser">>

\* C10: whenever the parser of a file raised, extract_from_pdf did not raise,
\* it returned no table for the file, and the job's report does not list the
\* file as a success.
C10_RaiseYieldsNoTable ==
    /\ \A i \in DOMAIN elog :
          ParserRaised(i) =>
             /\ ~elog[i].raised
             /\ elog[i].tables = <<>>
             /\ elog[i].status # "success"
    /\ jpc = "done" =>
          Val(job.results).success <= Cardinality({i \in DOMAIN elog : ~ParserRaised(i)})

\* What extract_from_pdf computes before parse for the file of entry i of
\* elog when its extractor has read no other file.
Alone(i) ==
    BeforeParse(<<>>, TempPath(elog[i].filename), uploads[elog[i].idx].content,
                elog[i].filename)
SameAsAlone(e, b) ==
    /\ e.text_lines = b.text_lines_clean
    /\ e.bank_hint = b.bank_hint
    /\ e.parser = b.parser
\* The entries of a list of the report that name a file.
Named(list, filename) == {k \in DOMAIN list : list[k].name = filename}
Uploaded(filename) == {k \in DOMAIN uploads : uploads[k].filename = filename}

\* C11: every file the loop has passed has exactly one entry in resultados or
\* errores; what is dispatched to the parser for a file is what it would be
\* had the job held that file only, whatever happened to the files before it;
\* and a job that completes is in state SUCCESS with a report that holds
\* exactly one entry per uploaded file.
C11_FailuresIsolated ==
    /\ Len(job_resultados) + Len(errores) = epos - 1
    /\ \A i \in DOMAIN elog : SameAsAlone(elog[i], Alone(i))
    /\ jpc = "done" =>
          /\ job.state = "SUCCESS"
          /\ Val(job.results).total = Len(uploads)
          /\ \A k \in DOMAIN uploads :
                Cardinality(Named(Val(job.results).results, uploads[k].filename))
                   = Cardinality(Uploaded(uploads[k].filename))

\* C27 (as stated): the lines handed to the parser for a file are those read
\* from that file's own content, also when an earlier file of the job had the
\* same filename and hence the same temporary path and cache key.
C27_OwnDocumentContent ==
    \A i \in DOMAIN elog : elog[i].text_lines = Alone(i).text_lines_clean

\* C28 (as stated): every bank code the classification gives a file, other
\* than the generic sentinel, is a key of the parser registry, and the parser
\* selected for the file is that bank's own, never the generic one.
C28_CodesRegistered ==
    \A i \in DOMAIN elog :
        elog[i].bank_hint # "GENÉRICO" =>
            /\ Registered(elog[i].bank_hint)
            /\ elog[i].parser # "GenericParser"

\* ---- bank resolution ------------------------------------------------------------------
\* The positions of the allow-listed banks among the upper-case tokens of a file
\* name, and the bank codes an alias of which is among a set of words.
BankNames == SetOfSeq(banks)
BankTokens(tokens) == {k \in DOMAIN tokens : tokens[k] \in BankNames}
AliasCodes(words) == {hints[h].code : h \in {g \in DOMAIN hints : hints[g].keys \cap words # {}}}
\* The BANK token of a file name of the form COMPANY-BANK-[EXTRAS]-PERIOD, first
\* being the position of its first allow-listed bank (0: none).
PatternBank(tokens, first) ==
    IF Len(tokens) >= 3 /\ first # 0 /\ first < Len(tokens) THEN tokens[first] ELSE ""
\* The first allow-listed bank among the tokens of a file name.
NamedBank(tokens, first) == IF first = 0 THEN "" ELSE tokens[first]

\* The bank by the stated order: pattern, allow-listed token, alias in the text.
StatedBank(tokens, first, phrases, bank_hint) ==
    IF PatternBank(tokens, first) # "" THEN bank_hint = PatternBank(tokens, first)
    ELSE IF NamedBank(tokens, first) # "" THEN bank_hint = NamedBank(tokens, first)
    ELSE IF AliasCodes(phrases) # {} THEN bank_hint \in AliasCodes(phrases)
    ELSE bank_hint = "GENÉRICO"

\* The same with an alias among the tokens of the file name before the text.
FilenameFirstBank(tokens, first, phrases, bank_hint) ==
    IF PatternBank(tokens, first) # "" THEN bank_hint = PatternBank(tokens, first)
    ELSE IF NamedBank(tokens, first) # "" THEN bank_hint = NamedBank(tokens, first)
    ELSE IF AliasCodes(SetOfSeq(tokens)) # {} THEN bank_hint \in AliasCodes(SetOfSeq(tokens))
    ELSE IF AliasCodes(phrases) # {} THEN bank_hint \in AliasCodes(phrases)
    ELSE bank_hint = "GENÉRICO"

\* C16 (as stated): the bank code is resolved in strict priority: the BANK token of
\* a file name COMPANY-BANK-[EXTRAS]-PERIOD, else an allow-listed bank among
\* the tokens of the file name, else a bank whose alias is in the text sample,
\* else the generic sentinel.
C16_StrictPriority ==
    \A i \in DOMAIN elog :
        StatedBank(UpperAll(elog[i].filename), Least(BankTokens(UpperAll(elog[i].filename))),
                   elog[i].phrases, elog[i].bank_hint)

\* C16 (amended): the same, with a bank whose alias is a token of the file name
\* ahead of the aliases of the text sample; so a file name that names an
\* allow-listed bank, or an alias of a bank, decides whatever the text mentions.
C16_FilenameOutranksText ==
    \A i \in DOMAIN elog :
        FilenameFirstBank(UpperAll(elog[i].filename), Least(BankTokens(UpperAll(elog[i].filename))),
                          elog[i].phrases, elog[i].bank_hint)

\* A file whose name carries only an alias of one bank and whose text mentions
\* another bank has been classified, and so has a file whose name names an
\* allow-listed bank while its text mentions another.
C16_Witness ==
    /\ \E i \in DOMAIN elog :
          /\ elog[i].filename = <<"extracto", "bna", "jun2025">>
          /\ AliasCodes(elog[i].phrases) = {"MACRO"} /\ elog[i].bank_hint = "NACION"
    /\ \E i \in DOMAIN elog :
          /\ elog[i].filename = <<"acme", "nacion", "jun2025">>
          /\ AliasCodes(elog[i].phrases) = {"MACRO"} /\ elog[i].bank_hint = "NACION"

\* ---- the OCR stage of extract_from_pdf ---------------------------------------------
\* The lines of the pages the OCR relevance filter returned.
RECURSIVE Recognized(_)
Recognized(ocr_text) ==
    IF ocr_text = <<>> THEN 0 ELSE Head(ocr_text).lines + Recognized(Tail(ocr_text))

\* C17 (as stated): the OCR relevance filter is invoked exactly when the bank
\* requires forced OCR or fewer than 5 pre-cleaned lines (none included) were
\* read, and when it returns recognized pages their lines are among the lines
\* dispatched to the parser.
C17_OcrLinesAppended ==
    \A i \in DOMAIN elog :
        /\ elog[i].should_use_ocr <=>
               (elog[i].bank_hint \in FORCE_OCR_BANKS \/ elog[i].pre_lines < 5)
        /\ (elog[i].should_use_ocr /\ elog[i].ocr_text # <<>>) =>
               elog[i].text_lines >= elog[i].pre_lines + Recognized(elog[i].ocr_text)

\* ---- the table stage of extract_from_pdf -------------------------------------------
\* C18 (as stated): table extraction is skipped exactly when the PDF is probed as
\* image-based or the detected bank is in SKIP_CAMELOT_BANKS, and is run
\* otherwise.
C18_SkipCamelot ==
    \A i \in DOMAIN elog :
        elog[i].skip_camelot <=>
            (_is_image_based_pdf(uploads[elog[i].idx].content)
                \/ elog[i].bank_hint \in SKIP_CAMELOT_BANKS)

\* ---- the metadata columns of the returned tables --------------------------------
\* C19 (as stated): in every non-empty table extract_from_pdf returns, the company,
\* bank and period fields are the values derived from the file name.
C19_MetadataForced ==
    \A i \in DOMAIN elog : \A t \in DOMAIN elog[i].tables :
        elog[i].tables[t].rows > 0 =>
            /\ elog[i].tables[t].empresa = Some(parse_filename_metadata(elog[i].filename).empresa)
            /\ elog[i].tables[t].banco = Some(parse_filename_metadata(elog[i].filename).banco)
            /\ elog[i].tables[t].periodo = Some(parse_filename_metadata(elog[i].filename).periodo)

(***************************************************************************)
(* The debit / credit / balance columns of the bank parsers:               *)
(* extractos/parsers/comafi.py, parsers/macro.py, parsers/ciudad.py        *)
(***************************************************************************)

\* Bounds: lines read by one parse() and amounts on one line.
MaxLines == 2
MaxAmounts == 3

\* A source line is [text, dia, montos]: the words left of the line once date
\* and amounts are taken out, the day of its date (0: the line has no date) and
\* the amounts the parser's amount pattern finds on it, in order.  0 is the
\* amount "0,00".
Texts == {"SALDO ANTERIOR", "SALDO FINAL", "TRANSFERENCIA RECIBIDA", "COMISION", "PAGO"}
Amounts == {0, 100, 250}
Dias == {0, 1}
Lines == [text : Texts, dia : Dias, montos : {<<>>} \cup SeqsUpTo(Amounts, MaxAmounts)]

Row(detalle, dia, amts) ==
    [detalle |-> detalle, dia |-> dia, debito |-> amts[1], credito |-> amts[2], saldo |-> amts[3]]

\* str.upper() of a detalle.
DetalleUpper(d) ==
    IF d = "Saldo Anterior" THEN "SALDO ANTERIOR"
    ELSE IF d = "Saldo Final" THEN "SALDO FINAL" ELSE d

\* ---- ComafiParser.parse --------------------------------------------------------
\* Lines 186-205: the kind of line and the forced classification.
ComafiSaldoIni(l) == l.text = "SALDO ANTERIOR"
ComafiSaldoFin(l) == l.text = "SALDO FINAL"
ComafiCre(l) == l.text = "TRANSFERENCIA RECIBIDA"

\* Lines 207-264: <<deb, cre, sal>> by the number of amounts found.
ComafiAmounts(l) ==
    LET m == l.montos
        n == Len(m)
        saldo == ComafiSaldoIni(l) \/ ComafiSaldoFin(l)
    IN  IF n = 0 THEN <<0, 0, 0>>
        ELSE IF n = 1
             THEN IF saldo THEN <<0, 0, m[1]>>
                  ELSE IF ComafiCre(l) THEN <<0, m[1], 0>> ELSE <<m[1], 0, 0>>
        ELSE IF n = 2
             THEN IF saldo THEN <<0, 0, m[2]>>
                  ELSE IF ComafiCre(l) THEN <<0, m[1], m[2]>> ELSE <<m[1], 0, m[2]>>
        ELSE <<m[n - 2], m[n - 1], m[n]>>

\* Lines 222-236: with one amount, a balance line is taken once and only when
\* its amount is not zero; its detalle is then rewritten.  The two flags
\* saldo_anterior_agregado / saldo_final_agregado are set exactly when a row
\* with the rewritten detalle has been appended.
ComafiSkips(l, dat) ==
    /\ Len(l.montos) = 1
    /\ \/ ComafiSaldoIni(l)
          /\ ((\E i \in DOMAIN dat : dat[i].detalle = "Saldo Anterior") \/ l.montos[1] = 0)
       \/ ~ComafiSaldoIni(l) /\ ComafiSaldoFin(l)
          /\ ((\E i \in DOMAIN dat : dat[i].detalle = "Saldo Final") \/ l.montos[1] = 0)

ComafiDetalle(l) ==
    IF Len(l.montos) = 1 /\ ComafiSaldoIni(l) THEN "Saldo Anterior"
    ELSE IF Len(l.montos) = 1 /\ ComafiSaldoFin(l) THEN "Saldo Final"
    ELSE l.text

\* Lines 163-286: one iteration of the loop over the lines.
ComafiLine(l, dat) ==
    IF ComafiSkips(l, dat) THEN dat
    ELSE Append(dat, Row(ComafiDetalle(l), l.dia, ComafiAmounts(l)))

\* Line 293: drop_duplicates(keep="first").
DropDuplicates(dat) ==
    SelectSeq([i \in DOMAIN dat |-> [r |-> dat[i], first |-> \A j \in 1..(i - 1) : dat[j] # dat[i]]],
              LAMBDA x : x.first)

\* Lines 288-313: the table returned.  A table this short is sorted by insertion,
\* which keeps the order of equal dates.
ComafiReturn(dat) ==
    LET df == [i \in DOMAIN DropDuplicates(dat) |-> DropDuplicates(dat)[i].r]
        con == SelectSeq(df, LAMBDA r : r.dia # 0)
        con_fecha == sort_values(con, [i \in DOMAIN con |-> <<Some(con[i].dia)>>])
        saldo_ant == SelectSeq(df, LAMBDA r : r.dia = 0 /\ DetalleUpper(r.detalle) = "SALDO ANTERIOR")
        saldo_fin == SelectSeq(df, LAMBDA r : r.dia = 0 /\ DetalleUpper(r.detalle) = "SALDO FINAL")
        frames == SubSeq(saldo_ant, 1, Min(1, Len(saldo_ant))) \o con_fecha
                      \o SubSeq(saldo_fin, 1, Min(1, Len(saldo_fin)))
    IN  IF frames # <<>> THEN frames ELSE df

\* ---- MacroParser.parse ---------------------------------------------------------
\* _last_amount (lines 194-202) of a line without a minus sign.
_last_amount(l) == IF l.montos = <<>> THEN 0 ELSE l.montos[Len(l.montos)]

\* _saldo_row (lines 163-177); its fecha is a fixed far date, not the line's.
_saldo_row(tipo, valor) == Row(tipo, 0, <<0, 0, valor>>)

\* Lines 90-112: <<deb, cre, sal>> of a movement line with at least one amount.
MacroAmounts(l) ==
    LET m == l.montos
        n == Len(m)
        looks_credit == l.text = "TRANSFERENCIA RECIBIDA"
        looks_debit == l.text = "COMISION"
    IN  IF n >= 3 THEN <<m[n - 2], m[n - 1], m[n]>>
        ELSE IF n = 2
             THEN IF looks_credit /\ ~looks_debit THEN <<0, m[1], m[2]>>
                  ELSE IF looks_debit /\ ~looks_credit THEN <<m[1], 0, m[2]>>
                  ELSE IF m[1] < m[2] THEN <<0, m[1], m[2]>> ELSE <<m[1], 0, m[2]>>
        ELSE <<0, 0, m[1]>>

\* Lines 52-130: one iteration of the loop over the lines.
MacroLine(l, dat) ==
    IF l.text = "SALDO ANTERIOR" THEN Append(dat, _saldo_row("Saldo Anterior", _last_amount(l)))
    ELSE IF l.text = "SALDO FINAL" THEN Append(dat, _saldo_row("Saldo Final", _last_amount(l)))
    ELSE IF l.dia = 0 \/ l.montos = <<>> THEN dat
    ELSE Append(dat, Row(l.text, l.dia, MacroAmounts(l)))

\* Lines 132-160: first opening balance, the other rows, last closing balance.
MacroReturn(dat) ==
    LET saldo_ant == SelectSeq(dat, LAMBDA r : r.detalle = "Saldo Anterior")
        saldo_fin == SelectSeq(dat, LAMBDA r : r.detalle = "Saldo Final")
        otros == SelectSeq(dat, LAMBDA r : r.detalle \notin {"Saldo Anterior", "Saldo Final"})
    IN  SubSeq(saldo_ant, 1, Min(1, Len(saldo_ant))) \o otros
            \o (IF saldo_fin = <<>> THEN <<>> ELSE <<saldo_fin[Len(saldo_fin)]>>)

\* ---- CiudadParser ----------------------------------------------------------------
\* _categorize_ciudad (lines 114-162) for at least one amount.
_categorize_ciudad(dia, detalle, amounts) ==
    LET n == Len(amounts)
        is_debit == detalle = "COMISION"
    IN  Row(detalle, dia,
            IF n = 1 THEN <<0, 0, amounts[1]>>
            ELSE IF n = 2
                 THEN IF is_debit THEN <<amounts[1], 0, amounts[2]>>
                      ELSE <<0, amounts[1], amounts[2]>>
            ELSE <<amounts[1], amounts[2], amounts[3]>>)

\* Lines 56-98 of _parse_lines: what one line does to rows ...
CiudadLine(l, dat) ==
    IF l.text = "SALDO ANTERIOR" \/ l.dia = 0 \/ l.montos = <<>> THEN dat
    ELSE Append(dat, _categorize_ciudad(l.dia, l.text, l.montos))

\* ... and to saldo_anterior (lines 61-65).
CiudadSaldo(l, s) ==
    IF l.text = "SALDO ANTERIOR" /\ l.montos # <<>> THEN Some(l.montos[Len(l.montos)]) ELSE s

\* Lines 100-112: the opening balance goes first when one was seen.
CiudadReturn(dat, s) ==
    IF IsNA(s) THEN dat ELSE <<Row("SALDO ANTERIOR", 0, <<0, 0, Val(s)>>)>> \o dat

\* ---- the state machine ---------------------------------------------------------------
Parsers == {"COMAFI", "MACRO", "CIUDAD"}

InitP ==
    /\ OthersIdleP
    /\ parser_cls \in Parsers
    /\ data = <<>> /\ nread = 0 /\ ppc = "lines" /\ table = <<>> /\ saldo_anterior = NA

\* One iteration of the running parser's loop over the lines.
ParseLine ==
    /\ ppc = "lines" /\ nread < MaxLines
    /\ \E l \in Lines :
          /\ data' = (IF parser_cls = "COMAFI" THEN ComafiLine(l, data)
                      ELSE IF parser_cls = "MACRO" THEN MacroLine(l, data)
                      ELSE CiudadLine(l, data))
          /\ saldo_anterior' = (IF parser_cls = "CIUDAD" THEN CiudadSaldo(l, saldo_anterior)
                                ELSE saldo_anterior)
    /\ nread' = nread + 1
    /\ UNCHANGED <<parser_cls, ppc, table, restP>>

\* The end of the loop: the table parse() returns.
ParseReturn ==
    /\ ppc = "lines"
    /\ table' = (IF parser_cls = "COMAFI" THEN ComafiReturn(data)
                 ELSE IF parser_cls = "MACRO" THEN MacroReturn(data)
                 ELSE CiudadReturn(data, saldo_anterior))
    /\ ppc' = "done"
    /\ UNCHANGED <<parser_cls, data, nread, saldo_anterior, restP>>

NextP == ParseLine \/ ParseReturn

SpecParsers == InitP /\ [][NextP]_vars

\* A balance row: its detalle is the opening or closing balance.
IsBalanceRow(r) == DetalleUpper(r.detalle) \in {"SALDO ANTERIOR", "SALDO FINAL"}

\* C15 (as stated): in every table a parser returns, a movement row has exactly one
\* of debit and credit non-zero and a balance row has debit = credit = 0, for
\* every number of amounts on the source line.
C15_DebitXorCredit ==
    ppc = "done" => \A i \in DOMAIN table :
        IF IsBalanceRow(table[i])
        THEN table[i].debito = 0 /\ table[i].credito = 0
        ELSE (table[i].debito # 0) # (table[i].credito # 0)


(***************************************************************************)
(* Date normalization of the parsers                                       *)
(***************************************************************************)

\* A date text dd/mm/yy or dd/mm/yyyy: its day, month, the value of its year
\* digits and how many digits the year has.
ShortYears == 0..99
LongYears == {1999, 2024, 2025}
DateTexts ==
    [d : {1, 15, 29, 31}, m : 1..12, y : ShortYears, ylen : {2}]
        \cup [d : {1, 15, 29, 31}, m : 1..12, y : LongYears, ylen : {4}]

\* datetime(y, m, d) does not raise.
IsDate(y, m, d) == y \in 1..9999 /\ m \in 1..12 /\ d \in 1..DaysIn(m, y)

\* What a normalizer returns: the text unchanged, or a date in a format.
RawDate(t) == [form |-> "raw", d |-> t.d, m |-> t.m, y |-> t.y]
DateAs(form, y, m, d) == [form |-> form, d |-> d, m |-> m, y |-> y]

\* StrictBankParser._norm_date: every year below 100 is taken to be 20yy.
_norm_date(raw) ==
    LET y == IF raw.y < 100 THEN raw.y + 2000 ELSE raw.y
    IN  IF IsDate(y, raw.m, raw.d) THEN DateAs("dd/mm/yyyy", y, raw.m, raw.d)
        ELSE RawDate(raw)

\* strptime's %y: 69..99 are 19yy, 00..68 are 20yy.
StrptimeShortYear(yy) == IF yy <= 68 THEN 2000 + yy ELSE 1900 + yy

\* BaseParser.normalize_date on a text with two slashes: "%d/%m/%Y" accepts a
\* 4-digit year, "%d/%m/%y" a 2-digit one; the result is written %Y-%m-%d.
normalize_date(date_str) ==
    LET y == IF date_str.ylen = 4 THEN date_str.y ELSE StrptimeShortYear(date_str.y)
    IN  IF IsDate(y, date_str.m, date_str.d) THEN DateAs("yyyy-mm-dd", y, date_str.m, date_str.d)
        ELSE RawDate(date_str)

DateNormalizers == {"_norm_date", "normalize_date"}
ApplyDate(f, t) == IF f = "_norm_date" THEN _norm_date(t) ELSE normalize_date(t)

InitDates ==
    /\ norm_fn \in DateNormalizers /\ norm_arg \in DateTexts
    /\ norm_out = <<>> /\ npc = "ready"
    /\ OthersIdleN

NormalizeDate ==
    /\ npc = "ready" /\ norm_fn \in DateNormalizers
    /\ norm_out' = ApplyDate(norm_fn, norm_arg)
    /\ npc' = "done"
    /\ UNCHANGED <<norm_fn, norm_arg, restN>>

SpecDates == InitDates /\ [][NormalizeDate]_vars

\* The year the stated rule gives a date text.
StatedYear(t) == IF t.ylen = 4 THEN t.y ELSE IF t.y < 70 THEN 2000 + t.y ELSE 1900 + t.y

\* C22 (as stated): every date dd/mm/yy or dd/mm/yyyy is normalized to
\* dd/mm/yyyy with a 4-digit year, a 2-digit year below 70 becoming 20yy and
\* one from 70 on becoming 19yy.
C22_DateNormalized ==
    (npc = "done" /\ norm_fn \in DateNormalizers
        /\ IsDate(StatedYear(norm_arg), norm_arg.m, norm_arg.d)) =>
        norm_out = DateAs("dd/mm/yyyy", StatedYear(norm_arg), norm_arg.m, norm_arg.d)


(***************************************************************************)
(* Amount normalization of the parsers                                     *)
(***************************************************************************)

\* An amount text is a sequence of characters.  The amounts tried are made
\* of a first group of 1 to 3 digits, up to MaxGroups - 1 groups of three
\* digits after a '.', a ',' and two decimals, with the sign written in one of
\* the four ways.
MaxGroups == 3
FirstGroups == {<<"0">>, <<"1">>, <<"7">>, <<"2", "0", "0">>}
NextGroups == {<<"0", "0", "0">>, <<"2", "3", "4">>, <<"5", "6", "7">>}
Decimals == {<<"0", "0">>, <<"0", "5">>, <<"8", "9">>}
SignForms == {"none", "leading", "trailing", "parentheses"}
AmountShapes ==
    [sign : SignForms, first : FirstGroups, decimals : Decimals,
     groups : {<<>>} \cup SeqsUpTo(NextGroups, MaxGroups - 1)]

RECURSIVE Grouped(_)
Grouped(groups) ==
    IF groups = <<>> THEN <<>> ELSE <<".">> \o Head(groups) \o Grouped(Tail(groups))
\* The text of an amount as a statement prints it.
AmountText(a) ==
    LET body == a.first \o Grouped(a.groups) \o <<",">> \o a.decimals
    IN  CASE a.sign = "none" -> body
          [] a.sign = "leading" -> <<"-">> \o body
          [] a.sign = "trailing" -> body \o <<"-">>
          [] a.sign = "parentheses" -> <<"(">> \o body \o <<")">>

DigitChars == {"0", "1", "2", "3", "4", "5", "6", "7", "8", "9"}

\* str.replace(c, "") for every c of chars, str.replace(a, b), startswith, endswith.
Without(t, chars) == LET Kept(c) == c \notin chars IN SelectSeq(t, Kept)
Replaced(t, a, b) == [i \in DOMAIN t |-> IF t[i] = a THEN b ELSE t[i]]
StartsWith(t, c) == t # <<>> /\ t[1] = c
EndsWith(t, c) == t # <<>> /\ t[Len(t)] = c

\* A number with two decimals is its sign, the digits of its whole part
\* without leading zeros and its two decimal digits; zero has no sign.
RECURSIVE NoLeadingZeros(_)
NoLeadingZeros(ds) ==
    IF ds # <<>> /\ Head(ds) = "0" THEN NoLeadingZeros(Tail(ds)) ELSE ds
Number(neg, whole, frac) ==
    LET w == NoLeadingZeros(whole)
        f == IF Len(frac) = 0 THEN <<"0", "0">>
             ELSE IF Len(frac) = 1 THEN frac \o <<"0">> ELSE frac
    IN  [neg |-> neg /\ ~(w = <<>> /\ f = <<"0", "0">>), whole |-> w, frac |-> f]
Zero == Number(FALSE, <<>>, <<>>)
Negated(v) == Number(~v.neg, v.whole, v.frac)

\* float(t) of a text of digits with at most two decimals after one '.', and
\* an optional leading '-': the number, or NA where float raises.
Float(t) ==
    LET neg == StartsWith(t, "-")
        u == IF neg THEN Tail(t) ELSE t
        dots == {i \in DOMAIN u : u[i] = "."}
        dot == IF dots = {} THEN Len(u) + 1 ELSE CHOOSE i \in dots : TRUE
        whole == SubSeq(u, 1, dot - 1)
        frac == SubSeq(u, dot + 1, Len(u))
    IN  IF \/ Cardinality(dots) > 1
           \/ Len(whole) + Len(frac) = 0
           \/ Len(frac) > 2
           \/ \E i \in DOMAIN u : u[i] \notin DigitChars \cup {"."}
        THEN NA
        ELSE Some(Number(neg, whole, frac))
\* try: v = float(t); return -v if neg else v; except: return 0.0
SignedOrZero(t, neg) ==
    IF IsNA(Float(t)) THEN Zero ELSE IF neg THEN Negated(Val(Float(t))) ELSE Val(Float(t))

\* StrictBankParser._to_amount.
strict_to_amount(s) ==
    LET neg == \/ StartsWith(s, "-") \/ EndsWith(s, "-")
               \/ (StartsWith(s, "(") /\ EndsWith(s, ")"))
        t1 == Without(s, {"(", ")", "-"})
        t2 == Without(t1, {"$", " "})
        t3 == Replaced(Without(t2, {"."}), ",", ".")
    IN  IF s = <<>> THEN Zero ELSE SignedOrZero(t3, neg)

\* _to_amount of extractos/parsers/generic.py.
_to_amount(s) ==
    LET t == Without(s, {"$", " "})
        neg == StartsWith(t, "-") \/ EndsWith(t, "-")
        t1 == Replaced(Without(Without(t, {"-"}), {"."}), ",", ".")
    IN  IF s = <<>> THEN Zero ELSE SignedOrZero(t1, neg)

\* BBVAParser._parse_amount.
_parse_amount(amount_str) ==
    SignedOrZero(Replaced(Without(amount_str, {"."}), ",", "."), FALSE)

AmountNormalizers == {"StrictBankParser._to_amount", "generic._to_amount", "BBVAParser._parse_amount"}
ApplyAmount(f, t) ==
    CASE f = "StrictBankParser._to_amount" -> strict_to_amount(t)
      [] f = "generic._to_amount" -> _to_amount(t)
      [] f = "BBVAParser._parse_amount" -> _parse_amount(t)

InitAmounts ==
    /\ norm_fn \in AmountNormalizers /\ norm_arg \in AmountShapes
    /\ norm_out = <<>> /\ npc = "ready"
    /\ OthersIdleN

NormalizeAmount ==
    /\ npc = "ready" /\ norm_fn \in AmountNormalizers
    /\ norm_out' = ApplyAmount(norm_fn, AmountText(norm_arg))
    /\ npc' = "done"
    /\ UNCHANGED <<norm_fn, norm_arg, restN>>

SpecAmounts == InitAmounts /\ [][NormalizeAmount]_vars

\* The number the stated rule gives an amount.
StatedAmount(a) ==
    Number(a.sign # "none", a.first \o FlattenSeqs(a.groups), a.decimals)

\* C23 (as stated): amount normalization gives every locale-formatted amount
\* its value, negative exactly when the text has a leading '-', a trailing
\* '-' or is wrapped in parentheses.
C23_AmountNormalized ==
    (npc = "done" /\ norm_fn \in AmountNormalizers) => norm_out = StatedAmount(norm_arg)


(***************************************************************************)
(* Classification of a line's amounts: parsers/macro.py, parsers/ciudad.py, *)
(* parsers/bbva.py                                                         *)
(***************************************************************************)

Abs(x) == IF x < 0 THEN 0 - x ELSE x

\* BBVAParser._parse_lines, lines 72-145, on a line of the movements section
\* that starts with a date: the rows it appends.  A line with the word
\* 'saldo' is skipped as a header; debito and credito left None are written 0.
BbvaLine(l, dat) ==
    LET amounts == l.montos
        n == Len(amounts)
    IN  IF l.text \in {"SALDO ANTERIOR", "SALDO FINAL"} \/ l.dia = 0 \/ n = 0 THEN dat
        ELSE Append(dat, Row(l.text, l.dia,
                IF n = 1 THEN (IF amounts[1] < 0 THEN <<Abs(amounts[1]), 0, 0>>
                               ELSE <<0, amounts[1], 0>>)
                ELSE IF n = 2 THEN (IF amounts[1] < 0 THEN <<Abs(amounts[1]), 0, amounts[2]>>
                                    ELSE <<0, amounts[1], amounts[2]>>)
                ELSE <<IF amounts[1] < 0 THEN Abs(amounts[1]) ELSE 0,
                       IF amounts[2] > 0 THEN amounts[2] ELSE 0,
                       amounts[3]>>))

\* The dated lines with amounts that are classified.  The amounts of a BBVA
\* line may carry a minus sign, which its classification reads.
Classifiers == {"MACRO", "CIUDAD", "BBVA"}
DatedLines == {l \in Lines : l.dia # 0 /\ l.montos # <<>>}
SignedLines ==
    [text : Texts, dia : Dias \ {0}, montos : SeqsUpTo(Amounts \cup {0 - 100}, MaxAmounts)]
ClassifyLine(f, l) ==
    CASE f = "MACRO" -> MacroLine(l, <<>>)
      [] f = "CIUDAD" -> CiudadLine(l, <<>>)
      [] f = "BBVA" -> BbvaLine(l, <<>>)

InitClassify ==
    /\ norm_fn \in Classifiers
    /\ norm_arg \in (IF norm_fn = "BBVA" THEN SignedLines ELSE DatedLines)
    /\ norm_out = <<>> /\ npc = "ready"
    /\ OthersIdleN

\* One iteration of the parser's loop on the line, with no row before it.
Classify1 ==
    /\ npc = "ready" /\ norm_fn \in Classifiers
    /\ norm_out' = ClassifyLine(norm_fn, norm_arg)
    /\ npc' = "done"
    /\ UNCHANGED <<norm_fn, norm_arg, restN>>

SpecClassify == InitClassify /\ [][Classify1]_vars

\* The movement amount mov went to exactly one of debit and credit.
IsMovementOf(r, mov) ==
    \/ r.debito = Abs(mov) /\ r.credito = 0
    \/ r.credito = Abs(mov) /\ r.debito = 0
HasSaldoKeyword(l) == l.text \in {"SALDO ANTERIOR", "SALDO FINAL"}

\* C24 (as stated): the row made of a line is decided by the number of its
\* amounts: on a transaction line (no 'saldo' keyword) three are (debit, credit, balance); two are (movement, balance),
\* the movement in debit or in credit; one is the balance alone when the line
\* has a 'saldo' keyword and otherwise a movement in debit or in credit, no
\* balance.
C24_ClassifiedByCount ==
    (npc = "done" /\ norm_fn \in Classifiers /\ norm_out # <<>>) =>
        LET r == norm_out[1]
            m == norm_arg.montos
        IN  /\ (Len(m) = 3 /\ ~HasSaldoKeyword(norm_arg)) =>
                 r.debito = Abs(m[1]) /\ r.credito = Abs(m[2]) /\ r.saldo = m[3]
            /\ (Len(m) = 2 /\ ~HasSaldoKeyword(norm_arg)) =>
                 IsMovementOf(r, m[1]) /\ r.saldo = m[2]
            /\ Len(m) = 1 =>
                 IF HasSaldoKeyword(norm_arg)
                 THEN r.debito = 0 /\ r.credito = 0 /\ r.saldo = m[1]
                 ELSE IsMovementOf(r, m[1]) /\ r.saldo = 0


(***************************************************************************)
(* The job entry as the routes see it: routes/extractos.py                 *)
(***************************************************************************)

\* download_result (routes/extractos.py 87-106) on the job's entry as it is now.
download_result(entry) ==
    IF entry.state # "SUCCESS" THEN "not finished"
    ELSE IF IsNA(entry.result_file) THEN "result file not available"
    ELSE "file"

\* C26 (as stated): whenever the job's state is SUCCESS, its result_file and
\* its results are set, so a download that sees SUCCESS gets the file.
C26_SuccessHasResult ==
    job.state = "SUCCESS" =>
        /\ ~IsNA(job.result_file) /\ ~IsNA(job.results)
        /\ download_result(job) = "file"

\* The state changes of a job entry the lifecycle allows.
JobTransitions ==
    {<<"PENDING", "PROGRESS">>, <<"PROGRESS", "SUCCESS">>,
     <<"PENDING", "FAILURE">>, <<"PROGRESS", "FAILURE">>}

\* C30: the state of a job only goes PENDING, PROGRESS, SUCCESS, or to FAILURE
\* from PENDING or PROGRESS; SUCCESS and FAILURE never change; and a step of
\* the worker leaves the entries of the other jobs as they are.
C30_JobLifecycle ==
    [][/\ job'.state # job.state => <<job.state, job'.state>> \in JobTransitions
       /\ other_jobs' = other_jobs]_vars

\* The worker has finished a job with SUCCESS while another job's entry exists.
C30_Witness ==
    jpc = "done" /\ job.state = "SUCCESS" /\ DOMAIN other_jobs # {}

================================================================================
